---- MODULE Spec2Model ----
(***************************************************************************)
(* A model of the generative core of src/app.py: the melody generator,     *)
(* the drum sequencer, the continuation and humanizer passes, and the      *)
(* process-wide random stream they all draw from.                          *)
(*                                                                         *)
(* Units.  Probabilities (density, variation, humanize,                    *)
(* velocity_variation and the literals 0.1 and 0.95) are integers in       *)
(* hundredths; swing is an integer in thousandths.  A value of the random  *)
(* stream is its state s in 0..RngMod-1, read as the float s / RngMod in   *)
(* [0, 1).                                                                 *)
(***************************************************************************)
EXTENDS Integers, Naturals, Sequences, FiniteSets, TLC

VARIABLES
    active_connections, \* manager.active_connections: the sockets registered
    client_states,  \* manager.client_states: a dict, as the set of its items
    sock,           \* sock[s]: the session coroutine serving socket s and its client
    result,         \* result[p]: the list get_scale_notes returned to caller p
    ws,             \* ws[p]: the websocket session of client p: stage, params, failure, reply
    tpb,            \* tpb[p]: ticks per beat of the file read (mid) and of the file made (out)
    rng,            \* state of the module-level generator of `random`
    pc,             \* pc[p]: where request p is in its call
    fn,             \* fn[p]: the function request p calls
    req,            \* req[p]: the request (parameters) of the call
    mid,            \* mid[p]: tracks of the input MidiFile (continue, style)
    tracks,         \* tracks[p]: tracks of the MidiFile being built
    events,         \* events[p]: drum hits collected so far (tick, note, vel)
    current_tick,   \* melody cursor
    current_idx,    \* melody scale index
    rests,          \* melody: the iterations so far that placed no note (continue)
    bar,            \* drums: the loop variable bar
    step,           \* drums: the loop variable step (-1 before the first iteration)
    tick,           \* drums: tick of the current step
    trk,            \* continue/style: index of orig_track in mid.tracks
    pos,            \* continue/style: index of msg in the list being walked
    file            \* file[p]: tracks of the saved file the call returns

\* the variables of the connection manager and the sessions, and the others
session == <<active_connections, client_states, sock>>
core == <<result, ws, tpb, rng, pc, fn, req, mid, tracks, events, current_tick, current_idx,
          rests, bar, step, tick, trk, pos, file>>

vars == <<session, core>>

----------------------------------------------------------------------------
(* Bounds of the model *)

\* Optional[int] = None: seeds are the naturals, None is none of them
None == -1

RngMod == 97
MaxBars == 1
MaxDrumBars == 2
MaxSpan == 5
MaxOctave == 11
MaxSeed == 1

Procs == {1, 2}

\* req[p] of a call that takes no request object
NoReq == [tempo_bpm |-> None]

----------------------------------------------------------------------------
(* Program constants *)

ticks_per_beat == 480
ticks_per_16th == ticks_per_beat \div 4

Max(a, b) == IF a >= b THEN a ELSE b
Min(a, b) == IF a <= b THEN a ELSE b

----------------------------------------------------------------------------
(* The random stream.  `random` is one deterministic generator per process; *)
(* every draw advances its state and the value drawn is a function of the  *)
(* new state.  seed(s) puts it in a state that depends on s alone.         *)

RngNext(s) == (5 * s + 3) % RngMod

SeedState(seed) == (7 * seed + 1) % RngMod

\* random.random() > pct/100 and random.random() < pct/100, the value drawn being s/RngMod
RandomGt(s, pct) == 100 * s > pct * RngMod
RandomLt(s, pct) == 100 * s < pct * RngMod

\* random.randint(a, b)
RandInt(s, a, b) == a + ((s * (b - a + 1)) \div RngMod)

\* random.choice(seq)
Choice(s, seq) == seq[1 + ((s * Len(seq)) \div RngMod)]

\* random.choices(values, weights=weights)[0]: bisect_right of the cumulative
\* weights (in hundredths) over the first n-1 entries
RECURSIVE CumWeight(_, _)
CumWeight(weights, k) == IF k = 0 THEN 0 ELSE weights[k] + CumWeight(weights, k - 1)

Choices(s, values, weights) ==
    values[1 + Cardinality({k \in 1..(Len(values) - 1) :
                              CumWeight(weights, k) * RngMod <= 100 * s})]

\* a call without a seed starts the stream afresh
SeedStream_fresh(s, seed) == IF seed = None THEN SeedState(0) ELSE SeedState(seed)

SeedStream_never(s, seed) == s

\* if req.seed is not None: random.seed(req.seed)
SeedStream(s, seed) == IF seed # None THEN SeedState(seed) ELSE s

----------------------------------------------------------------------------
(* Messages.  Payloads of meta messages (tempo, name, signature) are not   *)
(* kept: no operation of the core reads them.                              *)

Message(type, note, velocity, time, channel) ==
    [type |-> type, note |-> note, velocity |-> velocity, time |-> time, channel |-> channel]

MetaMessage(type, time) ==
    [type |-> type, note |-> 0, velocity |-> 0, time |-> time, channel |-> 0]

IsNote(msg) == msg.type \in {"note_on", "note_off"}

\* MidiFile.save: each track is written through mido's fix_end_of_track, which
\* drops every end_of_track, adds its delta time to the next message, and
\* ends the track with one end_of_track
RECURSIVE FixEndOfTrack(_, _)
FixEndOfTrack(track, accum) ==
    IF track = <<>> THEN <<MetaMessage("end_of_track", accum)>>
    ELSE IF Head(track).type = "end_of_track"
         THEN FixEndOfTrack(Tail(track), accum + Head(track).time)
         ELSE <<[Head(track) EXCEPT !.time = accum + Head(track).time]>>
              \o FixEndOfTrack(Tail(track), 0)

Save_as_is(trks) == trks

\* mid.save(path): what a reader of the saved file finds in its tracks
Save(trks) == [k \in 1..Len(trks) |-> FixEndOfTrack(trks[k], 0)]

----------------------------------------------------------------------------
(* Scale table and pitch resolver *)

Major == <<0, 2, 4, 5, 7, 9, 11>>
Minor == <<0, 2, 3, 5, 7, 8, 10>>

SCALES ==
    ("C_major" :> [root |-> 0, intervals |-> Major]) @@
    ("C_minor" :> [root |-> 0, intervals |-> Minor]) @@
    ("D_major" :> [root |-> 2, intervals |-> Major]) @@
    ("D_minor" :> [root |-> 2, intervals |-> <<0, 2, 3, 5, 7, 9, 10>>]) @@
    ("E_minor" :> [root |-> 4, intervals |-> Minor]) @@
    ("F_major" :> [root |-> 5, intervals |-> Major]) @@
    ("G_major" :> [root |-> 7, intervals |-> Major]) @@
    ("A_minor" :> [root |-> 9, intervals |-> Minor]) @@
    ("A_major" :> [root |-> 9, intervals |-> Major]) @@
    ("B_minor" :> [root |-> 11, intervals |-> Minor])

ScaleGet_other_default(scale_name) ==
    IF scale_name \in DOMAIN SCALES THEN SCALES[scale_name] ELSE SCALES["A_minor"]

\* SCALES.get(scale_name, SCALES["C_major"])
ScaleGet(scale_name) ==
    IF scale_name \in DOMAIN SCALES THEN SCALES[scale_name] ELSE SCALES["C_major"]

InPitchRange_upper_only(note) == note <= 127

\* if 0 <= note <= 127
InPitchRange(note) == 0 <= note /\ note <= 127

OctaveNotes(scale, octave) ==
    SelectSeq([k \in 1..Len(scale.intervals) |->
                   (octave * 12) + scale.root + scale.intervals[k]],
              InPitchRange)

RECURSIVE OctavesFrom(_, _, _)
OctavesFrom(scale, octave, stop) ==
    IF octave >= stop THEN <<>>
    ELSE OctaveNotes(scale, octave) \o OctavesFrom(scale, octave + 1, stop)

get_scale_notes(scale_name, base_octave, octave_range) ==
    OctavesFrom(ScaleGet(scale_name),
                base_octave - (octave_range \div 2),
                base_octave + (octave_range \div 2) + 1)

\* get_scale_notes(scale_name, base_octave, octave_range), called on its own
ScaleArgs ==
    [scale_name : DOMAIN SCALES \cup {"Z_unknown"},
     base_octave : (-1)..MaxOctave,
     octave_range : 1..MaxSpan]

GetScaleNotes(p, a) ==
    /\ pc[p] = "idle"
    /\ fn' = [fn EXCEPT ![p] = "get_scale_notes"]
    /\ req' = [req EXCEPT ![p] = a]
    /\ result' = [result EXCEPT ![p] =
                      get_scale_notes(a.scale_name, a.base_octave, a.octave_range)]
    /\ pc' = [pc EXCEPT ![p] = "done"]
    /\ UNCHANGED <<session, rests, ws, tpb, rng, mid, tracks, events, current_tick, current_idx,
                   bar, step, tick, trk, pos, file>>

----------------------------------------------------------------------------
(* Melody generator *)

durations == <<120, 240, 480, 720, 960>>
steps == <<-3, -2, -1, 0, 1, 2, 3>>
step_weights == <<5, 15, 25, 10, 25, 15, 5>>

MelodyReqs ==
    [tempo_bpm : {120}, bars : 1..MaxBars, seed : {None} \cup 0..MaxSeed,
     scale : {"C_major", "B_minor", "Z_unknown"}, density : {0, 55, 100},
     variation : {0, 35, 100}, octave_range : {1, 2, 12}]

total_ticks(r) == r.bars * 4 * ticks_per_beat

scale_notes(r) == get_scale_notes(r.scale, 4, r.octave_range)

LoopContinues_inclusive(t, total) == t <= total

\* while current_tick < total_ticks
LoopContinues(t, total) == t < total

\* a rest of an 8th instead of a 16th
RestAdvance_eighth(t) == t + 240

RestAdvance_stuck(t) == t

\* the rest branch: current_tick += 120
RestAdvance(t) == t + 120

ClipDuration_none(t, dur, total) == dur

\* if current_tick + dur > total_ticks: dur = total_ticks - current_tick
ClipDuration(t, dur, total) == IF t + dur > total THEN total - t ELSE dur

\* an index that goes around to the other end
ClampIdx_wrap(idx, n) == idx % n

\* current_idx = max(0, min(len(scale_notes) - 1, current_idx + step))
ClampIdx(idx, n) == Max(0, Min(n - 1, idx))

Accent_unclamped(vel) == vel + 40

\* if random.random() < 0.1: vel = min(127, vel + 20)
Accent(vel) == Min(127, vel + 20)

\* tempo = mido.bpm2tempo(req.tempo_bpm) divides 60 * 1e6 by the tempo: with
\* tempo_bpm = 0 the call raises ZeroDivisionError, after the seeding
MelodyRaise(p, r) ==
    /\ pc[p] = "idle"
    /\ r.tempo_bpm = 0
    /\ fn' = [fn EXCEPT ![p] = "generate_melody_midi"]
    /\ rng' = SeedStream(rng, r.seed)
    /\ req' = [req EXCEPT ![p] = r]
    /\ pc' = [pc EXCEPT ![p] = "raised"]
    /\ UNCHANGED <<session, rests, result, ws, tpb, mid, tracks, events, current_tick,
                   current_idx, bar, step, tick, trk, pos, file>>

MelodyStart(p, r) ==
    /\ pc[p] = "idle"
    /\ r.tempo_bpm # 0
    /\ tpb' = [tpb EXCEPT ![p] = [mid |-> None, out |-> ticks_per_beat]]
    /\ fn' = [fn EXCEPT ![p] = "generate_melody_midi"]
    /\ rng' = SeedStream(rng, r.seed)
    /\ req' = [req EXCEPT ![p] = r]
    /\ tracks' = [tracks EXCEPT ![p] = << <<MetaMessage("set_tempo", 0),
                                            MetaMessage("time_signature", 0),
                                            MetaMessage("track_name", 0)>> >>]
    /\ current_tick' = [current_tick EXCEPT ![p] = 0]
    /\ current_idx' = [current_idx EXCEPT ![p] = Len(scale_notes(r)) \div 2]
    /\ rests' = [rests EXCEPT ![p] = 0]
    /\ pc' = [pc EXCEPT ![p] = "melody"]
    /\ UNCHANGED <<session, result, ws, mid, events, bar, step, tick, trk, pos, file>>

MelodyRest(p) ==
    /\ pc[p] = "melody"
    /\ LoopContinues(current_tick[p], total_ticks(req[p]))
    /\ RandomGt(RngNext(rng), req[p].density)
    /\ rng' = RngNext(rng)
    /\ current_tick' = [current_tick EXCEPT ![p] = RestAdvance(current_tick[p])]
    /\ rests' = [rests EXCEPT ![p] = @ + 1]
    /\ UNCHANGED <<session, result, ws, tpb, fn, pc, req, mid, tracks, events, current_idx, bar,
                   step, tick, trk, pos, file>>

MelodyNote(p) ==
    /\ pc[p] = "melody"
    /\ LoopContinues(current_tick[p], total_ticks(req[p]))
    /\ ~RandomGt(RngNext(rng), req[p].density)
    /\ LET notes == scale_notes(req[p])
           s2 == RngNext(RngNext(rng))
           dur == ClipDuration(current_tick[p], Choice(s2, durations), total_ticks(req[p]))
           s3 == RngNext(s2)
           s4 == RngNext(s3)
           vary == RandomLt(s4, req[p].variation)
           s5 == IF vary THEN RngNext(s4) ELSE s4
           stp == IF vary THEN Choices(s3, steps, step_weights) * Choice(s5, <<1, 2>>)
                          ELSE Choices(s3, steps, step_weights)
           idx == ClampIdx(current_idx[p] + stp, Len(notes))
           pitch == notes[idx + 1]
           s6 == RngNext(s5)
           s7 == RngNext(s6)
           vel == IF RandomLt(s7, 10) THEN Accent(RandInt(s6, 60, 100))
                                      ELSE RandInt(s6, 60, 100)
       IN  /\ rng' = s7
           /\ current_idx' = [current_idx EXCEPT ![p] = idx]
           /\ tracks' = [tracks EXCEPT ![p][1] =
                            @ \o <<Message("note_on", pitch, vel, 0, 0),
                                   Message("note_off", pitch, 0, dur, 0)>>]
           /\ current_tick' = [current_tick EXCEPT ![p] = current_tick[p] + dur]
    /\ UNCHANGED <<session, rests, result, ws, tpb, fn, pc, req, mid, events, bar, step, tick,
                   trk, pos, file>>

MelodyFinish(p) ==
    /\ pc[p] = "melody"
    /\ ~LoopContinues(current_tick[p], total_ticks(req[p]))
    /\ tracks' = [tracks EXCEPT ![p][1] = @ \o <<MetaMessage("end_of_track", 0)>>]
    /\ file' = [file EXCEPT ![p] = Save(tracks'[p])]
    /\ pc' = [pc EXCEPT ![p] = "done"]
    /\ UNCHANGED <<session, rests, result, ws, tpb, fn, rng, req, mid, events, current_tick,
                   current_idx, bar, step, tick, trk, pos>>

----------------------------------------------------------------------------
(* Drum kit table and drum sequencer *)

DRUM_MAP ==
    ("kick" :> 36) @@
    ("snare" :> 38) @@
    ("hihat_closed" :> 42) @@
    ("hihat_open" :> 46) @@
    ("tom_low" :> 45) @@
    ("tom_mid" :> 47) @@
    ("tom_high" :> 50) @@
    ("crash" :> 49) @@
    ("ride" :> 51) @@
    ("clap" :> 39)

\* a pattern is the list of its (voice, hits) items in the dict's order
DRUM_PATTERNS ==
    ("basic" :> <<
        [name |-> "kick", hits |-> <<1, 0, 0, 0, 1, 0, 0, 0, 1, 0, 0, 0, 1, 0, 0, 0>>],
        [name |-> "snare", hits |-> <<0, 0, 0, 0, 1, 0, 0, 0, 0, 0, 0, 0, 1, 0, 0, 0>>],
        [name |-> "hihat_closed", hits |-> <<1, 0, 1, 0, 1, 0, 1, 0, 1, 0, 1, 0, 1, 0, 1, 0>>]>>) @@
    ("funk" :> <<
        [name |-> "kick", hits |-> <<1, 0, 0, 1, 0, 0, 1, 0, 0, 1, 0, 0, 1, 0, 0, 0>>],
        [name |-> "snare", hits |-> <<0, 0, 0, 0, 1, 0, 0, 1, 0, 0, 0, 0, 1, 0, 0, 0>>],
        [name |-> "hihat_closed", hits |-> <<1, 1, 1, 1, 1, 1, 1, 1, 1, 1, 1, 1, 1, 1, 1, 1>>],
        [name |-> "hihat_open", hits |-> <<0, 0, 0, 0, 0, 0, 0, 0, 0, 0, 0, 0, 0, 0, 1, 0>>]>>) @@
    ("jazz" :> <<
        [name |-> "ride", hits |-> <<1, 0, 1, 1, 0, 1, 1, 0, 1, 1, 0, 1, 1, 0, 1, 0>>],
        [name |-> "kick", hits |-> <<1, 0, 0, 0, 0, 0, 1, 0, 0, 0, 1, 0, 0, 0, 0, 0>>],
        [name |-> "snare", hits |-> <<0, 0, 0, 0, 0, 0, 0, 0, 0, 0, 0, 0, 0, 1, 0, 0>>],
        [name |-> "hihat_closed", hits |-> <<0, 0, 1, 0, 0, 0, 1, 0, 0, 0, 1, 0, 0, 0, 1, 0>>]>>) @@
    ("electronic" :> <<
        [name |-> "kick", hits |-> <<1, 0, 0, 0, 1, 0, 0, 0, 1, 0, 0, 0, 1, 0, 0, 0>>],
        [name |-> "snare", hits |-> <<0, 0, 0, 0, 1, 0, 0, 0, 0, 0, 0, 0, 1, 0, 0, 0>>],
        [name |-> "hihat_closed", hits |-> <<1, 1, 1, 1, 1, 1, 1, 1, 1, 1, 1, 1, 1, 1, 1, 1>>],
        [name |-> "clap", hits |-> <<0, 0, 0, 0, 1, 0, 0, 0, 0, 0, 0, 0, 1, 0, 0, 0>>]>>) @@
    ("techno" :> <<
        [name |-> "kick", hits |-> <<1, 0, 0, 0, 1, 0, 0, 0, 1, 0, 0, 0, 1, 0, 0, 0>>],
        [name |-> "clap", hits |-> <<0, 0, 0, 0, 1, 0, 0, 0, 0, 0, 0, 0, 1, 0, 0, 0>>],
        [name |-> "hihat_closed", hits |-> <<1, 0, 1, 0, 1, 0, 1, 0, 1, 0, 1, 0, 1, 0, 1, 0>>],
        [name |-> "hihat_open", hits |-> <<0, 0, 0, 1, 0, 0, 0, 1, 0, 0, 0, 1, 0, 0, 0, 1>>],
        [name |-> "tom_low", hits |-> <<0, 0, 0, 0, 0, 0, 0, 0, 0, 0, 1, 0, 0, 0, 0, 0>>]>>) @@
    ("dnb" :> <<
        [name |-> "kick", hits |-> <<1, 0, 0, 0, 0, 0, 1, 0, 0, 0, 0, 0, 0, 0, 1, 0>>],
        [name |-> "snare", hits |-> <<0, 0, 0, 0, 1, 0, 0, 0, 0, 0, 1, 0, 0, 0, 0, 0>>],
        [name |-> "hihat_closed", hits |-> <<1, 1, 1, 1, 1, 1, 1, 1, 1, 1, 1, 1, 1, 1, 1, 1>>]>>) @@
    ("hiphop" :> <<
        [name |-> "kick", hits |-> <<1, 0, 0, 1, 0, 0, 1, 0, 0, 0, 1, 0, 0, 0, 0, 0>>],
        [name |-> "snare", hits |-> <<0, 0, 0, 0, 1, 0, 0, 0, 0, 0, 0, 0, 1, 0, 0, 0>>],
        [name |-> "hihat_closed", hits |-> <<1, 0, 1, 0, 1, 0, 1, 0, 1, 0, 1, 0, 1, 0, 1, 0>>],
        [name |-> "hihat_open", hits |-> <<0, 0, 0, 0, 0, 0, 0, 1, 0, 0, 0, 0, 0, 0, 0, 1>>]>>) @@
    ("house" :> <<
        [name |-> "kick", hits |-> <<1, 0, 0, 0, 1, 0, 0, 0, 1, 0, 0, 0, 1, 0, 0, 0>>],
        [name |-> "clap", hits |-> <<0, 0, 0, 0, 1, 0, 0, 0, 0, 0, 0, 0, 1, 0, 0, 0>>],
        [name |-> "hihat_closed", hits |-> <<0, 0, 1, 0, 0, 0, 1, 0, 0, 0, 1, 0, 0, 0, 1, 0>>],
        [name |-> "hihat_open", hits |-> <<0, 1, 0, 0, 0, 1, 0, 0, 0, 1, 0, 0, 0, 1, 0, 0>>]>>) @@
    ("trap" :> <<
        [name |-> "kick", hits |-> <<1, 0, 0, 0, 0, 0, 0, 1, 0, 0, 1, 0, 0, 0, 0, 0>>],
        [name |-> "snare", hits |-> <<0, 0, 0, 0, 1, 0, 0, 0, 0, 0, 0, 0, 1, 0, 0, 0>>],
        [name |-> "hihat_closed", hits |-> <<1, 1, 1, 1, 1, 1, 1, 1, 1, 1, 1, 1, 1, 1, 1, 1>>],
        [name |-> "hihat_open", hits |-> <<0, 0, 0, 1, 0, 0, 1, 0, 0, 0, 0, 1, 0, 0, 1, 0>>]>>) @@
    ("reggae" :> <<
        [name |-> "kick", hits |-> <<1, 0, 0, 0, 0, 0, 1, 0, 0, 0, 0, 0, 1, 0, 0, 0>>],
        [name |-> "snare", hits |-> <<0, 0, 0, 1, 0, 0, 0, 0, 0, 0, 0, 1, 0, 0, 0, 0>>],
        [name |-> "hihat_closed", hits |-> <<1, 0, 1, 0, 1, 0, 1, 0, 1, 0, 1, 0, 1, 0, 1, 0>>]>>) @@
    ("latin" :> <<
        [name |-> "kick", hits |-> <<1, 0, 0, 0, 0, 0, 1, 0, 0, 0, 0, 0, 1, 0, 0, 0>>],
        [name |-> "snare", hits |-> <<0, 0, 0, 0, 0, 0, 0, 0, 1, 0, 0, 0, 0, 0, 0, 0>>],
        [name |-> "hihat_closed", hits |-> <<1, 0, 1, 0, 1, 0, 1, 0, 1, 0, 1, 0, 1, 0, 1, 0>>],
        [name |-> "tom_high", hits |-> <<0, 0, 1, 0, 0, 1, 0, 0, 0, 0, 1, 0, 0, 1, 0, 0>>]>>) @@
    ("dubstep" :> <<
        [name |-> "kick", hits |-> <<1, 0, 0, 0, 0, 0, 0, 0, 0, 0, 0, 0, 1, 0, 0, 0>>],
        [name |-> "snare", hits |-> <<0, 0, 0, 0, 0, 0, 0, 0, 1, 0, 0, 0, 0, 0, 0, 0>>],
        [name |-> "hihat_closed", hits |-> <<1, 0, 1, 0, 1, 0, 1, 0, 1, 0, 1, 0, 1, 0, 1, 0>>],
        [name |-> "tom_low", hits |-> <<0, 0, 0, 1, 0, 0, 0, 0, 0, 0, 0, 1, 0, 0, 0, 0>>]>>)

\* DRUM_PATTERNS.get(req.style, DRUM_PATTERNS["basic"])
PatternGet(style) ==
    IF style \in DOMAIN DRUM_PATTERNS THEN DRUM_PATTERNS[style] ELSE DRUM_PATTERNS["basic"]

\* DRUM_MAP.get(drum_name, 36)
DrumNote(drum_name) == IF drum_name \in DOMAIN DRUM_MAP THEN DRUM_MAP[drum_name] ELSE 36

DrumReqs ==
    [tempo_bpm : {120}, bars : 1..MaxDrumBars, seed : {None} \cup 0..MaxSeed,
     style : {"basic", "funk", "techno", "Z_unknown"},
     swing : {0, 10, 17, 500, 1000, 2500}]

\* int(x) for a rational x = num / den with den > 0: truncation toward zero
IntTrunc(num, den) == IF num >= 0 THEN num \div den ELSE -((-num) \div den)

get_swing_offset_every_step(swing, stp) ==
    IF swing > 0 THEN IntTrunc(ticks_per_16th * swing, 2000) ELSE 0

\* round(x) of Python for a rational x = num / den >= 0: the nearest integer,
\* a tie going to the even one
RoundHalfEven(num, den) ==
    LET q == num \div den
        r == num % den
    IN  IF 2 * r < den THEN q
        ELSE IF 2 * r > den THEN q + 1
        ELSE IF q % 2 = 0 THEN q ELSE q + 1

\* what round() in place of int() would give
get_swing_offset_rounded(swing, stp) ==
    IF swing > 0 /\ stp % 2 = 1
    THEN RoundHalfEven(ticks_per_16th * swing, 2000)
    ELSE 0

\* the offset without the factor 0.5: a whole 16th at swing 1
get_swing_offset_whole_step(swing, stp) ==
    IF swing > 0 /\ stp % 2 = 1 THEN IntTrunc(ticks_per_16th * swing, 1000) ELSE 0

get_swing_offset_early(swing, stp) ==
    IF swing > 0 /\ stp % 2 = 1 THEN -IntTrunc(ticks_per_16th * swing, 2000) ELSE 0

\* get_swing_offset(step), swing in thousandths: int(ticks_per_16th * swing * 0.5)
get_swing_offset(swing, stp) ==
    IF swing > 0 /\ stp % 2 = 1 THEN IntTrunc(ticks_per_16th * swing, 2000) ELSE 0

\* tick = (bar * 16 + step) * ticks_per_16th + get_swing_offset(step)
StepTick(swing, b, stp) == (b * 16 + stp) * ticks_per_16th + get_swing_offset(swing, stp)

HitFlag_next_step(hits, stp) == hits[((stp + 1) % Len(hits)) + 1] # 0

\* if hits[step % len(hits)]
HitFlag(hits, stp) == hits[(stp % Len(hits)) + 1] # 0

\* if random.random() < 0.95
Retained(s) == RandomLt(s, 95)

\* the body of "for drum_name, hits in pattern.items()" from voice k on, the
\* stream being in state s: the state it leaves and the hits it appends
RECURSIVE VoiceHits(_, _, _, _, _)
VoiceHits(pattern, k, s, tk, stp) ==
    IF k > Len(pattern) THEN [rng |-> s, events |-> <<>>]
    ELSE IF ~HitFlag(pattern[k].hits, stp) THEN VoiceHits(pattern, k + 1, s, tk, stp)
    ELSE IF ~Retained(RngNext(s)) THEN VoiceHits(pattern, k + 1, RngNext(s), tk, stp)
    ELSE LET s2 == RngNext(RngNext(s))
             s3 == RngNext(s2)
             ghost == RandomLt(s3, 10)
             s4 == IF ghost THEN RngNext(s3) ELSE s3
             vel == IF ghost THEN RandInt(s4, 40, 60) ELSE RandInt(s2, 80, 110)
             rest == VoiceHits(pattern, k + 1, s4, tk, stp)
         IN  [rng |-> rest.rng,
              events |-> <<<<tk, DrumNote(pattern[k].name), vel>>>> \o rest.events]

RECURSIVE InsertByTick_unstable(_, _)
InsertByTick_unstable(x, s) ==
    IF s = <<>> THEN <<x>>
    ELSE IF s[Len(s)][1] < x[1] THEN Append(s, x)
    ELSE Append(InsertByTick_unstable(x, SubSeq(s, 1, Len(s) - 1)), s[Len(s)])

\* list.sort(key=lambda x: x[0]): stable, ascending in the first component
RECURSIVE InsertByTick(_, _)
InsertByTick(x, s) ==
    IF s = <<>> THEN <<x>>
    ELSE IF s[Len(s)][1] <= x[1] THEN Append(s, x)
    ELSE Append(InsertByTick(x, SubSeq(s, 1, Len(s) - 1)), s[Len(s)])

RECURSIVE SortByTick(_)
SortByTick(s) ==
    IF s = <<>> THEN <<>>
    ELSE InsertByTick(s[Len(s)], SortByTick(SubSeq(s, 1, Len(s) - 1)))

\* a note-off one 16th after the hit, as the shortest melody duration
RECURSIVE MidiEvents_sixteenth(_)
MidiEvents_sixteenth(evs) ==
    IF evs = <<>> THEN <<>>
    ELSE <<<<Head(evs)[1], "on", Head(evs)[2], Head(evs)[3]>>,
           <<Head(evs)[1] + 120, "off", Head(evs)[2], 0>>>>
         \o MidiEvents_sixteenth(Tail(evs))

\* midi_events: an "on" at the tick and an "off" 60 ticks later for every hit
RECURSIVE MidiEvents(_)
MidiEvents(evs) ==
    IF evs = <<>> THEN <<>>
    ELSE <<<<Head(evs)[1], "on", Head(evs)[2], Head(evs)[3]>>,
           <<Head(evs)[1] + 60, "off", Head(evs)[2], 0>>>> \o MidiEvents(Tail(evs))

\* delta = max(0, abs_tick - last_tick)
Delta(abs_tick, last_tick) == Max(0, abs_tick - last_tick)

\* the loop that converts to delta times and appends to the track
RECURSIVE DeltaMessages(_, _)
DeltaMessages(mevs, last_tick) ==
    IF mevs = <<>> THEN <<>>
    ELSE LET e == Head(mevs)
         IN  <<Message(IF e[2] = "on" THEN "note_on" ELSE "note_off",
                       e[3], IF e[2] = "on" THEN e[4] ELSE 0,
                       Delta(e[1], last_tick), 9)>>
             \o DeltaMessages(Tail(mevs), e[1])

\* the "Sort by time and write to track" part of generate_drums_midi
WriteDrums(evs) == DeltaMessages(SortByTick(MidiEvents(SortByTick(evs))), 0)

HasNextStep(r, b, stp) == r.bars > 0 /\ (stp < 15 \/ b + 1 < r.bars)

DrumsStart(p, r) ==
    /\ pc[p] = "idle"
    /\ tpb' = [tpb EXCEPT ![p] = [mid |-> None, out |-> ticks_per_beat]]
    /\ fn' = [fn EXCEPT ![p] = "generate_drums_midi"]
    /\ rng' = SeedStream(rng, r.seed)
    /\ req' = [req EXCEPT ![p] = r]
    /\ tracks' = [tracks EXCEPT ![p] = << <<MetaMessage("set_tempo", 0),
                                            MetaMessage("time_signature", 0),
                                            MetaMessage("track_name", 0)>> >>]
    /\ events' = [events EXCEPT ![p] = <<>>]
    /\ bar' = [bar EXCEPT ![p] = 0]
    /\ step' = [step EXCEPT ![p] = -1]
    /\ pc' = [pc EXCEPT ![p] = "drums"]
    /\ UNCHANGED <<session, rests, result, ws, mid, current_tick, current_idx, tick, trk, pos,
                   file>>

\* one iteration of "for step in range(16)" (of the next bar when the bar is over)
DrumsStep(p) ==
    /\ pc[p] = "drums"
    /\ HasNextStep(req[p], bar[p], step[p])
    /\ LET b == IF step[p] = 15 THEN bar[p] + 1 ELSE bar[p]
           stp == IF step[p] = 15 THEN 0 ELSE step[p] + 1
           tk == StepTick(req[p].swing, b, stp)
           got == VoiceHits(PatternGet(req[p].style), 1, rng, tk, stp)
       IN  /\ bar' = [bar EXCEPT ![p] = b]
           /\ step' = [step EXCEPT ![p] = stp]
           /\ tick' = [tick EXCEPT ![p] = tk]
           /\ rng' = got.rng
           /\ events' = [events EXCEPT ![p] = @ \o got.events]
    /\ UNCHANGED <<session, rests, result, ws, tpb, fn, pc, req, mid, tracks, current_tick,
                   current_idx, trk, pos, file>>

DrumsWrite(p) ==
    /\ pc[p] = "drums"
    /\ ~HasNextStep(req[p], bar[p], step[p])
    /\ tracks' = [tracks EXCEPT ![p][1] =
                     @ \o WriteDrums(events[p]) \o <<MetaMessage("end_of_track", 0)>>]
    /\ file' = [file EXCEPT ![p] = Save(tracks'[p])]
    /\ pc' = [pc EXCEPT ![p] = "done"]
    /\ UNCHANGED <<session, rests, result, ws, tpb, fn, rng, req, mid, events, current_tick,
                   current_idx, bar, step, tick, trk, pos>>

----------------------------------------------------------------------------
(* Input files of the two transformers: what MidiFile(input_path) reads.   *)
(* Every track is a header of meta messages, n notes (a note-on with        *)
(* velocity > 0, then its note-off, written as note_off or as a note_on     *)
(* with velocity 0) and an end_of_track.                                    *)

InputPitches == <<60, 62, 127, 0, 126, 1, 64>>
InputVelocities == <<64, 1, 127, 5, 120>>

InputPitch(k) == InputPitches[(k % Len(InputPitches)) + 1]
InputVelocity(k) == InputVelocities[(k % Len(InputVelocities)) + 1]

Header ==
    <<MetaMessage("set_tempo", 0), MetaMessage("time_signature", 0),
      MetaMessage("track_name", 0)>>

InputNotes(n, offtype) ==
    [i \in 1..(2 * n) |->
        IF i % 2 = 1
        THEN Message("note_on", InputPitch((i + 1) \div 2), InputVelocity((i + 1) \div 2),
                     IF i % 4 = 1 THEN 0 ELSE 120, 0)
        ELSE Message(offtype, InputPitch(i \div 2), 0, 240, 0)]

InputTrack(n, offtype, eot) ==
    Header \o InputNotes(n, offtype) \o <<MetaMessage("end_of_track", eot)>>

MetaTrack == Header \o <<MetaMessage("end_of_track", 0)>>

\* mid.ticks_per_beat of the files read
InputTicksPerBeat == {96, 480}

ContinueFiles ==
    {<<InputTrack(10, "note_off", 0)>>,
     <<InputTrack(11, "note_off", 0)>>,
     <<InputTrack(11, "note_on", 0)>>,
     <<InputTrack(13, "note_off", 120)>>,
     <<MetaTrack, InputTrack(12, "note_off", 0)>>,
     <<InputTrack(11, "note_off", 0), InputTrack(2, "note_off", 0)>>}

HumanizeFiles ==
    {<<InputTrack(5, "note_off", 0)>>,
     <<InputTrack(4, "note_on", 120)>>,
     <<MetaTrack, InputTrack(3, "note_off", 0)>>}

StyleReqs ==
    [humanize : {0, 30, -50, 10000}, velocity_variation : {20, -50, 10000}, swing : {0}]

----------------------------------------------------------------------------
(* Sequence transformer: continuation *)

\* note_events = [msg for msg in orig_track if msg.type in ("note_on", "note_off")]
NoteEvents(track) == SelectSeq(track, IsNote)

\* tail_start = int(len(note_events) * 0.75)
TailStart(n) == IntTrunc(3 * n, 4)

\* a tail from 20 note events on
HasTail_from_twenty(n) == n >= 20

\* if len(note_events) > 20
HasTail(n) == n > 20

CopyTrack_meta_only(orig_track) == SelectSeq(orig_track, LAMBDA msg : ~IsNote(msg))

\* new_track.extend(orig_track)
CopyTrack(orig_track) == orig_track

\* pitch offsets of up to a major third
VaryPitch_wide(note, s) == Max(0, Min(127, note + Choice(s, <<-4, -2, 0, 0, 2, 4>>)))

\* new_pitch = max(0, min(127, msg.note + random.choice([-2, -1, 0, 0, 1, 2])))
VaryPitch(note, s) == Max(0, Min(127, note + Choice(s, <<-2, -1, 0, 0, 1, 2>>)))

\* new_vel = max(1, min(127, msg.velocity + random.randint(-10, 10)))
VaryVelocity(velocity, s) == Max(1, Min(127, velocity + RandInt(s, -10, 10)))

\* every note-on, whatever its velocity
IsSoundingNoteOn_any_velocity(msg) == msg.type = "note_on"

\* if msg.type == "note_on" and msg.velocity > 0
IsSoundingNoteOn(msg) == msg.type = "note_on" /\ msg.velocity > 0

ContinueStart(p, f) ==
    /\ pc[p] = "idle"
    /\ \E n \in InputTicksPerBeat : tpb' = [tpb EXCEPT ![p] = [mid |-> n, out |-> n]]
    /\ fn' = [fn EXCEPT ![p] = "continue_midi_file"]
    /\ mid' = [mid EXCEPT ![p] = f]
    /\ req' = [req EXCEPT ![p] = NoReq]
    /\ tracks' = [tracks EXCEPT ![p] = <<>>]
    /\ trk' = [trk EXCEPT ![p] = 0]
    /\ pos' = [pos EXCEPT ![p] = 0]
    /\ pc' = [pc EXCEPT ![p] = "continue"]
    /\ UNCHANGED <<session, rests, result, ws, rng, events, current_tick, current_idx, bar,
                   step, tick, file>>

\* the list the loop "for msg in tail" walks in the current track, as indices
\* pos+1 .. Len(note_events) of note_events; nothing is left when trk = 0
TailLeft(p) == IF trk[p] = 0 THEN 0 ELSE Len(NoteEvents(mid[p][trk[p]])) - pos[p]

\* "for orig_track in mid.tracks": the next track is copied and its tail found
ContinueTrack(p) ==
    /\ pc[p] = "continue"
    /\ TailLeft(p) = 0
    /\ trk[p] < Len(mid[p])
    /\ LET orig_track == mid[p][trk[p] + 1]
           n == Len(NoteEvents(orig_track))
       IN  /\ tracks' = [tracks EXCEPT ![p] = Append(@, CopyTrack(orig_track))]
           /\ pos' = [pos EXCEPT ![p] = IF HasTail(n) THEN TailStart(n) ELSE n]
    /\ trk' = [trk EXCEPT ![p] = trk[p] + 1]
    /\ UNCHANGED <<session, rests, result, ws, tpb, fn, rng, pc, req, mid, events, current_tick,
                   current_idx, bar, step, tick, file>>

\* one iteration of "for msg in tail" on a note-on with velocity > 0
ContinueVary(p) ==
    /\ pc[p] = "continue"
    /\ TailLeft(p) > 0
    /\ LET msg == NoteEvents(mid[p][trk[p]])[pos[p] + 1]
           s1 == RngNext(rng)
           s2 == RngNext(s1)
       IN  /\ IsSoundingNoteOn(msg)
           /\ rng' = s2
           /\ tracks' = [tracks EXCEPT ![p][trk[p]] =
                            Append(@, [msg EXCEPT !.note = VaryPitch(msg.note, s1),
                                                  !.velocity = VaryVelocity(msg.velocity, s2)])]
    /\ pos' = [pos EXCEPT ![p] = pos[p] + 1]
    /\ UNCHANGED <<session, rests, result, ws, tpb, fn, pc, req, mid, events, current_tick,
                   current_idx, bar, step, tick, trk, file>>

\* one iteration of "for msg in tail" on any other note event
ContinueCopy(p) ==
    /\ pc[p] = "continue"
    /\ TailLeft(p) > 0
    /\ LET msg == NoteEvents(mid[p][trk[p]])[pos[p] + 1]
       IN  /\ ~IsSoundingNoteOn(msg)
           /\ tracks' = [tracks EXCEPT ![p][trk[p]] = Append(@, msg)]
    /\ pos' = [pos EXCEPT ![p] = pos[p] + 1]
    /\ UNCHANGED <<session, rests, result, ws, tpb, fn, rng, pc, req, mid, events, current_tick,
                   current_idx, bar, step, tick, trk, file>>

ContinueFinish(p) ==
    /\ pc[p] = "continue"
    /\ TailLeft(p) = 0
    /\ trk[p] = Len(mid[p])
    /\ file' = [file EXCEPT ![p] = Save(tracks[p])]
    /\ pc' = [pc EXCEPT ![p] = "done"]
    /\ UNCHANGED <<session, rests, result, ws, tpb, fn, rng, req, mid, tracks, events,
                   current_tick, current_idx, bar, step, tick, trk, pos>>

----------------------------------------------------------------------------
(* Sequence transformer: humanizer *)

\* random.gauss(0, sigma) for sigma = sigma_num / sigma_den, times the
\* denominator 2 * sigma_den: the standard deviate drawn is one of the half
\* units -6/2 .. 6/2
GaussDeviate(s) == ((s * 13) \div RngMod) - 6

\* time_offset = int(random.gauss(0, req.humanize * 20)), humanize in hundredths
TimeOffset(humanize, s) == IntTrunc(GaussDeviate(s) * humanize * 20, 200)

\* vel_offset = int(random.gauss(0, req.velocity_variation * 15))
VelOffset(velocity_variation, s) == IntTrunc(GaussDeviate(s) * velocity_variation * 15, 200)

\* new_time = max(0, msg.time + time_offset)
NewTime(time, time_offset) == Max(0, time + time_offset)

NewVel_no_floor(velocity, vel_offset) == Min(127, velocity + vel_offset)

\* new_vel = max(1, min(127, msg.velocity + vel_offset))
NewVel(velocity, vel_offset) == Max(1, Min(127, velocity + vel_offset))

HumanizeStart(p, f, r) ==
    /\ pc[p] = "idle"
    /\ \E n \in InputTicksPerBeat : tpb' = [tpb EXCEPT ![p] = [mid |-> n, out |-> n]]
    /\ fn' = [fn EXCEPT ![p] = "humanize_midi_file"]
    /\ mid' = [mid EXCEPT ![p] = f]
    /\ req' = [req EXCEPT ![p] = r]
    /\ tracks' = [tracks EXCEPT ![p] = <<>>]
    /\ trk' = [trk EXCEPT ![p] = 0]
    /\ pos' = [pos EXCEPT ![p] = 0]
    /\ pc' = [pc EXCEPT ![p] = "humanize"]
    /\ UNCHANGED <<session, rests, result, ws, rng, events, current_tick, current_idx, bar,
                   step, tick, file>>

\* messages of the current orig_track the loop "for msg in orig_track" has left
MsgsLeft(p) == IF trk[p] = 0 THEN 0 ELSE Len(mid[p][trk[p]]) - pos[p]

\* "for orig_track in mid.tracks": the next track gets an empty new_track
HumanizeTrack(p) ==
    /\ pc[p] = "humanize"
    /\ MsgsLeft(p) = 0
    /\ trk[p] < Len(mid[p])
    /\ tracks' = [tracks EXCEPT ![p] = Append(@, <<>>)]
    /\ trk' = [trk EXCEPT ![p] = trk[p] + 1]
    /\ pos' = [pos EXCEPT ![p] = 0]
    /\ UNCHANGED <<session, rests, result, ws, tpb, fn, rng, pc, req, mid, events, current_tick,
                   current_idx, bar, step, tick, file>>

\* one iteration of "for msg in orig_track" on a note-on with velocity > 0
HumanizeNoteOn(p) ==
    /\ pc[p] = "humanize"
    /\ MsgsLeft(p) > 0
    /\ LET msg == mid[p][trk[p]][pos[p] + 1]
           s1 == RngNext(rng)
           s2 == RngNext(s1)
       IN  /\ IsSoundingNoteOn(msg)
           /\ rng' = s2
           /\ tracks' = [tracks EXCEPT ![p][trk[p]] =
                  Append(@, [msg EXCEPT
                      !.time = NewTime(msg.time, TimeOffset(req[p].humanize, s1)),
                      !.velocity = NewVel(msg.velocity,
                                          VelOffset(req[p].velocity_variation, s2))])]
    /\ pos' = [pos EXCEPT ![p] = pos[p] + 1]
    /\ UNCHANGED <<session, rests, result, ws, tpb, fn, pc, req, mid, events, current_tick,
                   current_idx, bar, step, tick, trk, file>>

\* one iteration of "for msg in orig_track" on any other message
HumanizeCopy(p) ==
    /\ pc[p] = "humanize"
    /\ MsgsLeft(p) > 0
    /\ LET msg == mid[p][trk[p]][pos[p] + 1]
       IN  /\ ~IsSoundingNoteOn(msg)
           /\ tracks' = [tracks EXCEPT ![p][trk[p]] = Append(@, msg)]
    /\ pos' = [pos EXCEPT ![p] = pos[p] + 1]
    /\ UNCHANGED <<session, rests, result, ws, tpb, fn, rng, pc, req, mid, events, current_tick,
                   current_idx, bar, step, tick, trk, file>>

HumanizeFinish(p) ==
    /\ pc[p] = "humanize"
    /\ MsgsLeft(p) = 0
    /\ trk[p] = Len(mid[p])
    /\ file' = [file EXCEPT ![p] = Save(tracks[p])]
    /\ pc' = [pc EXCEPT ![p] = "done"]
    /\ UNCHANGED <<session, rests, result, ws, tpb, fn, rng, req, mid, tracks, events,
                   current_tick, current_idx, bar, step, tick, trk, pos>>

----------------------------------------------------------------------------
(* Websocket session: the "generate_melody" action and the rendering of    *)
(* its MIDI file to audio.  The handler is a coroutine: what runs between   *)
(* two awaits runs without another session taking a step.                   *)

NoSession == [stage |-> "idle", params |-> NoReq, failure |-> "none", reply |-> [type |-> "none"]]

\* GenerateRequest(...) as the handler builds it from params and the state
WsReqs ==
    [tempo_bpm : {0, 120}, bars : {1}, seed : {None, 0}, scale : {"C_major"},
     density : {55}, variation : {35}, octave_range : {2}]

\* what the renderer (FluidSynth) and the transcoder (FFmpeg) can do
RenderOutcomes == {"ok", "sf2_missing", "fluidsynth_missing", "no_output", "timeout"}
TranscodeOutcomes == {"ok", "failed", "timeout", "ffmpeg_missing"}

\* the exception render_midi_to_wav raises, by outcome
RenderError(outcome) ==
    CASE outcome = "sf2_missing" -> [class |-> "RuntimeError", message |-> "SoundFont not found"]
      [] outcome = "fluidsynth_missing" -> [class |-> "FileNotFoundError", message |-> "fluidsynth"]
      [] outcome = "no_output" ->
             [class |-> "RuntimeError", message |-> "FluidSynth did not create output file"]
      [] outcome = "timeout" ->
             [class |-> "RuntimeError", message |-> "FluidSynth rendering timed out"]

\* the exception wav_to_mp3 raises, by outcome: only CalledProcessError is
\* caught and raised again as RuntimeError
TranscodeError(outcome) ==
    CASE outcome = "failed" -> [class |-> "RuntimeError", message |-> "FFmpeg conversion failed"]
      [] outcome = "timeout" -> [class |-> "TimeoutExpired", message |-> "ffmpeg timed out"]
      [] outcome = "ffmpeg_missing" -> [class |-> "FileNotFoundError", message |-> "ffmpeg"]

\* the exception generate_melody_midi raises with tempo_bpm = 0
GenerationError == [class |-> "ZeroDivisionError", message |-> "float division by zero"]

\* except Exception as e: send_json({"type": "error", "message": str(e)})
ErrorReply(e) == [type |-> "error", code |-> None, message |-> e.message]

AudioReady == [type |-> "audio_ready", code |-> None, message |-> "mp3"]

\* no other session is inside generate_melody_midi
Lock(p) == \A q \in Procs \ {p} : pc[q] # "melody"

\* the message {"action": "generate_melody", "params": ...} is received, the
\* request is built and the status "Generating melody..." is sent
WsReceive(p, r) ==
    /\ Lock(p)
    /\ ws[p].stage = "idle"
    /\ pc[p] = "idle"
    /\ ws' = [ws EXCEPT ![p] = [NoSession EXCEPT !.stage = "generating", !.params = r]]
    /\ UNCHANGED <<session, rests, result, tpb, rng, pc, fn, req, mid, tracks, events,
                   current_tick, current_idx, bar, step, tick, trk, pos, file>>

\* midi_path = generate_melody_midi(req): the call, step by step
InGenerate(p) == ws[p].stage = "generating" /\ Lock(p)

WsMelodyStart(p) == InGenerate(p) /\ MelodyStart(p, ws[p].params)
WsMelodyRaise(p) == InGenerate(p) /\ MelodyRaise(p, ws[p].params)
WsMelodyRest(p) == InGenerate(p) /\ MelodyRest(p)
WsMelodyNote(p) == InGenerate(p) /\ MelodyNote(p)
WsMelodyFinish(p) == InGenerate(p) /\ MelodyFinish(p)

\* generate_melody_midi raised: the except clause sends the error
WsGenerationFailed(p) ==
    /\ InGenerate(p)
    /\ pc[p] = "raised"
    /\ ws' = [ws EXCEPT ![p].stage = "replied", ![p].failure = "generation",
                        ![p].reply = ErrorReply(GenerationError)]
    /\ UNCHANGED <<session, rests, result, tpb, rng, pc, fn, req, mid, tracks, events,
                   current_tick, current_idx, bar, step, tick, trk, pos, file>>

\* generate_audio_from_midi(midi_path, format="mp3") and the reply: the
\* renderer, then the transcoder, each with one of its outcomes
WsRender(p) ==
    /\ InGenerate(p)
    /\ pc[p] = "done"
    /\ \E ro \in RenderOutcomes : \E to \in TranscodeOutcomes :
           ws' = [ws EXCEPT
               ![p].stage = "replied",
               ![p].failure = IF ro = "ok" /\ to = "ok" THEN "none" ELSE "render",
               ![p].reply = IF ro # "ok" THEN ErrorReply(RenderError(ro))
                            ELSE IF to # "ok" THEN ErrorReply(TranscodeError(to))
                            ELSE AudioReady]
    /\ UNCHANGED <<session, rests, result, tpb, rng, pc, fn, req, mid, tracks, events,
                   current_tick, current_idx, bar, step, tick, trk, pos, file>>

----------------------------------------------------------------------------
(* Connection manager and the session loop of websocket_spectacles.  A      *)
(* session is a coroutine: another session runs only where it awaits, in    *)
(* accept, in receive and in every send.  A dict is the set of its          *)
(* (key, value) items.                                                      *)

Sockets == {1, 2}
ClientIds == {"lens_a", "lens_b"}

\* a value that is no integer, such as the string "fast"
NotAnInt == -2

HasKey(d, key) == \E kv \in d : kv[1] = key

\* d.get(key, default)
DictGet(d, key, default) ==
    IF HasKey(d, key) THEN (CHOOSE kv \in d : kv[1] = key)[2] ELSE default

\* d[key] = value
DictSet(d, key, value) == {kv \in d : kv[1] # key} \cup {<<key, value>>}

\* del d[key]
DictDel(d, key) == {kv \in d : kv[1] # key}

\* self.active_connections.remove(websocket): the first occurrence goes
RECURSIVE ListRemove(_, _)
ListRemove(list, x) ==
    IF list = <<>> THEN <<>>
    ELSE IF Head(list) = x THEN Tail(list)
    ELSE <<Head(list)>> \o ListRemove(Tail(list), x)

InList(list, x) == \E i \in 1..Len(list) : list[i] = x

\* the state connect stores for a client (of its keys, the two that the
\* model's requests read)
DefaultState == {<<"tempo_bpm", 120>>, <<"density", 55>>}

\* the messages a client sends: text that is no JSON, bytes that are no
\* UTF-8, JSON that is no object, and objects with an action and params
ParamDicts ==
    {{}, {<<"tempo_bpm", 0>>}, {<<"tempo_bpm", NotAnInt>>}, {<<"volume", 5>>}}

Actions ==
    {"ping", "update_params", "generate_melody", "generate_drums", "generate_both", "dance"}

ObjectMessages ==
    [json : {"object"}, action : Actions, params_is_dict : BOOLEAN, params : ParamDicts]

\* the replies of the server
Reply(type, code, message) == [type |-> type, code |-> code, message |-> message]

Connected == Reply("connected", "none", "")
ParseError == Reply("error", "parse_error", "Invalid JSON")
ReceiveError == Reply("error", "receive_error", "Message error")
InternalError == Reply("error", "internal_error", "Server error")
Pong == Reply("pong", "none", "")
ParamsUpdated == Reply("params_updated", "none", "")
UnknownAction == Reply("error", "none", "Unknown action")
Status(message) == Reply("status", "none", message)
Failed(message) == Reply("error", "none", message)
AudioReadyReply(format) == Reply("audio_ready", "none", format)

NoSocket ==
    [pc |-> "new", client_id |-> "", client |-> "open", action |-> "none",
     out |-> Reply("none", "none", ""), next |-> "new", sent |-> <<>>,
     tempo_bpm |-> None, pieces |-> <<>>, work |-> <<>>, temp |-> {}]

\* manager.connect: accept, then the socket is appended and the state of
\* the client_id is set to a fresh dict; the welcome message is next
SessConnect(s, cid) ==
    /\ sock[s].pc = "new"
    /\ active_connections' = Append(active_connections, s)
    /\ client_states' = DictSet(client_states, cid, DefaultState)
    /\ sock' = [sock EXCEPT ![s].pc = "send", ![s].client_id = cid,
                            ![s].out = Connected, ![s].next = "receive"]
    /\ UNCHANGED core

\* the client goes away: its connection is closed from then on
ClientCloses(s) ==
    /\ sock[s].pc \notin {"new", "ended"}
    /\ sock[s].client = "open"
    /\ sock' = [sock EXCEPT ![s].client = "closed"]
    /\ UNCHANGED <<active_connections, client_states, core>>

\* await manager.send_json(websocket, ...) to a client that is there
SessSend(s) ==
    /\ sock[s].pc = "send"
    /\ sock[s].client = "open"
    /\ sock' = [sock EXCEPT ![s].pc = sock[s].next, ![s].sent = Append(@, sock[s].out)]
    /\ UNCHANGED <<active_connections, client_states, core>>

\* the send of the welcome message raises: lines 741-750 are before the try
\* statement, the exception leaves websocket_spectacles
SessWelcomeRaises(s) ==
    /\ sock[s].pc = "send"
    /\ sock[s].out = Connected
    /\ sock[s].client = "closed"
    /\ sock' = [sock EXCEPT ![s].pc = "ended"]
    /\ UNCHANGED <<active_connections, client_states, core>>

\* any later send raises: send_json raises it again, it leaves the loop and
\* one of the two outer handlers runs (its own send of "internal_error"
\* raises too and is passed over); manager.disconnect is next
SessSendRaises(s) ==
    /\ sock[s].pc = "send"
    /\ sock[s].out # Connected
    /\ sock[s].client = "closed"
    /\ sock' = [sock EXCEPT ![s].pc = "close"]
    /\ UNCHANGED <<active_connections, client_states, core>>

\* manager.disconnect(websocket, client_id), and the coroutine returns
SessClose(s) ==
    /\ sock[s].pc = "close"
    /\ active_connections' =
           IF InList(active_connections, s) THEN ListRemove(active_connections, s)
                                            ELSE active_connections
    /\ client_states' =
           IF HasKey(client_states, sock[s].client_id)
           THEN DictDel(client_states, sock[s].client_id)
           ELSE client_states
    /\ sock' = [sock EXCEPT ![s].pc = "ended"]
    /\ UNCHANGED core

\* websocket.receive() on a connection the client has closed: the
\* disconnect message has neither text nor bytes (continue), the next
\* receive raises, the handler at line 814 sends and that raises
SessClientGone(s) ==
    /\ sock[s].pc = "receive"
    /\ sock[s].client = "closed"
    /\ sock' = [sock EXCEPT ![s].pc = "close", ![s].action = "none", ![s].sent = <<>>]
    /\ UNCHANGED <<active_connections, client_states, core>>

\* a message arrives at a session that waits in receive
Awaiting(s) == sock[s].pc = "receive" /\ sock[s].client = "open"

\* the session has read a message of the given action and is to send reply
\* out, to go on at next; temp: the temporary MIDI files made for this
\* message (midi_path, melody_midi_path, drums_midi_path) that are on disk
Handling(k, action, out, next) ==
    [k EXCEPT !.pc = "send", !.action = action, !.out = out, !.next = next,
              !.sent = <<>>, !.work = <<>>, !.pieces = <<>>, !.temp = {}]

\* json.loads raises JSONDecodeError
SessParseError(s) ==
    /\ Awaiting(s)
    /\ sock' = [sock EXCEPT ![s] = Handling(@, "invalid_json", ParseError, "receive")]
    /\ UNCHANGED <<active_connections, client_states, core>>

\* message["bytes"].decode("utf-8") raises
SessReceiveError(s) ==
    /\ Awaiting(s)
    /\ sock' = [sock EXCEPT ![s] = Handling(@, "undecodable", ReceiveError, "receive")]
    /\ UNCHANGED <<active_connections, client_states, core>>

\* the JSON is a list, a string or a number: data.get (line 823) raises
\* AttributeError outside the inner try; the outer handler sends
\* "internal_error" and disconnects
SessNotAnObject(s) ==
    /\ Awaiting(s)
    /\ sock' = [sock EXCEPT ![s] = Handling(@, "not_an_object", InternalError, "close")]
    /\ UNCHANGED <<active_connections, client_states, core>>

SessPing(s, m) ==
    /\ Awaiting(s)
    /\ m.action = "ping"
    /\ sock' = [sock EXCEPT ![s] = Handling(@, m.action, Pong, "receive")]
    /\ UNCHANGED <<active_connections, client_states, core>>

\* for key, value in params.items(): if key in state: state[key] = value
RECURSIVE UpdatedState(_, _)
UpdatedState(state, params) ==
    IF params = {} THEN state
    ELSE LET kv == CHOOSE x \in params : TRUE
         IN  UpdatedState(IF HasKey(state, kv[1]) THEN DictSet(state, kv[1], kv[2]) ELSE state,
                          params \ {kv})

\* state = manager.client_states.get(client_id, {})
StateOf(cid) == DictGet(client_states, cid, {})

SessUpdateParams(s, m) ==
    /\ Awaiting(s)
    /\ m.action = "update_params"
    /\ m.params_is_dict
    /\ client_states' = DictSet(client_states, sock[s].client_id,
                                UpdatedState(StateOf(sock[s].client_id), m.params))
    /\ sock' = [sock EXCEPT ![s] = Handling(@, m.action, ParamsUpdated, "receive")]
    /\ UNCHANGED <<active_connections, core>>

\* params.get("tempo_bpm", state.get("tempo_bpm", 120))
RequestTempo(m, state) == DictGet(m.params, "tempo_bpm", DictGet(state, "tempo_bpm", 120))

IsGenerate(action) == action \in {"generate_melody", "generate_drums", "generate_both"}

\* params is no dict (params.items / params.get raise AttributeError) or
\* the request model rejects a value (ValidationError): both are raised
\* outside the inner try, the outer handler sends "internal_error" and
\* disconnects
BadParams(m, state) ==
    \/ m.action = "update_params" /\ ~m.params_is_dict
    \/ IsGenerate(m.action) /\ ~m.params_is_dict
    \/ IsGenerate(m.action) /\ m.params_is_dict /\ RequestTempo(m, state) = NotAnInt

SessBadParams(s, m) ==
    /\ Awaiting(s)
    /\ BadParams(m, StateOf(sock[s].client_id))
    /\ sock' = [sock EXCEPT ![s] = Handling(@, m.action, InternalError, "close")]
    /\ UNCHANGED <<active_connections, client_states, core>>

SessUnknownAction(s, m) ==
    /\ Awaiting(s)
    /\ m.action \notin {"ping", "update_params"} /\ ~IsGenerate(m.action)
    /\ sock' = [sock EXCEPT ![s] = Handling(@, m.action, UnknownAction, "receive")]
    /\ UNCHANGED <<active_connections, client_states, core>>

\* the pieces an action generates, in order
PiecesOf(action) ==
    CASE action = "generate_melody" -> <<"melody">>
      [] action = "generate_drums" -> <<"drums">>
      [] action = "generate_both" -> <<"melody", "drums">>

GeneratingStatus(action, piece) ==
    Status(IF piece = "melody" THEN "Generating melody..." ELSE "Generating drums...")

RenderingStatus(action, piece) ==
    Status(IF action = "generate_both"
           THEN (IF piece = "melody" THEN "Rendering melody audio..."
                                     ELSE "Rendering drums audio...")
           ELSE "Rendering audio...")

\* a generate action: the request is built and the first status is sent
SessGenerateStart(s, m) ==
    /\ Awaiting(s)
    /\ IsGenerate(m.action)
    /\ ~BadParams(m, StateOf(sock[s].client_id))
    /\ sock' = [sock EXCEPT ![s] =
           [Handling(@, m.action, GeneratingStatus(m.action, Head(PiecesOf(m.action))),
                     "generate")
               EXCEPT !.tempo_bpm = RequestTempo(m, StateOf(sock[s].client_id)),
                      !.pieces = PiecesOf(m.action)]]
    /\ UNCHANGED <<active_connections, client_states, core>>

\* generate_melody_midi / generate_drums_midi raise for tempo_bpm = 0
GenerateRaises(tempo_bpm) == tempo_bpm = 0

\* the call of the generator inside the try: the MIDI file is made (mkstemp
\* and save at the end of the generator) and the "Rendering" status is next,
\* or the call raises and the except clause sends the error
SessGenerate(s) ==
    /\ sock[s].pc = "generate"
    /\ sock' = [sock EXCEPT ![s] =
           IF GenerateRaises(sock[s].tempo_bpm)
           THEN [@ EXCEPT !.pc = "send", !.out = Failed(GenerationError.message),
                          !.next = "receive"]
           ELSE [@ EXCEPT !.pc = "send", !.work = Append(@, "generate"),
                          !.temp = @ \cup {Head(sock[s].pieces)},
                          !.out = RenderingStatus(sock[s].action, Head(sock[s].pieces)),
                          !.next = "render"]]
    /\ UNCHANGED <<active_connections, client_states, core>>

\* what became of a rendering, for the log of the session
Outcome(ro, to) == IF ro = "ok" /\ to = "ok" THEN "render" ELSE "render_failed"

AudioRendered_always(ro, to) == TRUE

\* os.unlink(midi_path) is the statement after generate_audio_from_midi and
\* os.path.getsize inside the try: reached when the rendering returned,
\* skipped when it raised
Unlinked(temp, piece, rendered) == IF rendered THEN temp \ {piece} ELSE temp

\* generate_audio_from_midi returns when renderer and transcoder succeed
AudioRendered(ro, to) == ro = "ok" /\ to = "ok"

\* generate_audio_from_midi(midi_path, format="mp3") and os.unlink(midi_path)
\* inside the try: the status of the next piece or the audio_ready reply,
\* or the error
SessRender(s) ==
    /\ sock[s].pc = "render"
    /\ \E ro \in RenderOutcomes : \E to \in TranscodeOutcomes :
           sock' = [sock EXCEPT ![s] =
               IF ~AudioRendered(ro, to)
               THEN [@ EXCEPT !.pc = "send", !.next = "receive",
                              !.temp = Unlinked(@, Head(sock[s].pieces), FALSE),
                              !.out = Failed(IF ro # "ok" THEN RenderError(ro).message
                                                          ELSE TranscodeError(to).message)]
               ELSE IF Len(sock[s].pieces) > 1
               THEN [@ EXCEPT !.pc = "send", !.work = Append(@, Outcome(ro, to)),
                              !.temp = Unlinked(@, Head(sock[s].pieces), TRUE),
                              !.pieces = Tail(@),
                              !.out = GeneratingStatus(sock[s].action, sock[s].pieces[2]),
                              !.next = "generate"]
               ELSE [@ EXCEPT !.pc = "send", !.work = Append(@, Outcome(ro, to)),
                              !.temp = Unlinked(@, Head(sock[s].pieces), TRUE),
                              !.out = AudioReadyReply(IF sock[s].action = "generate_both"
                                                      THEN "both" ELSE "mp3"),
                              !.next = "receive"]]
    /\ UNCHANGED <<active_connections, client_states, core>>

----------------------------------------------------------------------------
(* Specifications *)

Init ==
    /\ active_connections = <<>>
    /\ client_states = {}
    /\ sock = [s \in Sockets |-> NoSocket]
    /\ result = [p \in Procs |-> <<>>]
    /\ ws = [p \in Procs |-> NoSession]
    /\ tpb = [p \in Procs |-> [mid |-> None, out |-> None]]
    /\ rng \in 0..(RngMod - 1)
    /\ pc = [p \in Procs |-> "idle"]
    /\ fn = [p \in Procs |-> "none"]
    /\ req = [p \in Procs |-> NoReq]
    /\ mid = [p \in Procs |-> <<>>]
    /\ tracks = [p \in Procs |-> <<>>]
    /\ events = [p \in Procs |-> <<>>]
    /\ current_tick = [p \in Procs |-> 0]
    /\ current_idx = [p \in Procs |-> 0]
    /\ rests = [p \in Procs |-> 0]
    /\ bar = [p \in Procs |-> 0]
    /\ step = [p \in Procs |-> 0]
    /\ tick = [p \in Procs |-> 0]
    /\ trk = [p \in Procs |-> 0]
    /\ pos = [p \in Procs |-> 0]
    /\ file = [p \in Procs |-> <<>>]

Next ==
    \/ \E r \in MelodyReqs : MelodyStart(1, r)
    \/ MelodyRest(1)
    \/ MelodyNote(1)
    \/ MelodyFinish(1)
    \/ \E r \in DrumReqs : DrumsStart(1, r)
    \/ DrumsStep(1)
    \/ DrumsWrite(1)
    \/ \E f \in ContinueFiles : ContinueStart(1, f)
    \/ ContinueTrack(1)
    \/ ContinueVary(1)
    \/ ContinueCopy(1)
    \/ ContinueFinish(1)
    \/ \E f \in HumanizeFiles, r \in StyleReqs : HumanizeStart(1, f, r)
    \/ HumanizeTrack(1)
    \/ HumanizeNoteOn(1)
    \/ HumanizeCopy(1)
    \/ HumanizeFinish(1)

Spec == Init /\ [][Next]_vars

----------------------------------------------------------------------------
(* Two invocations with the same request, one after the other: request 2   *)
(* starts when request 1 has returned.                                     *)

MelodyRepeat(p, q) ==
    /\ pc[q] = "done"
    /\ MelodyStart(p, req[q])

NextSeq ==
    \/ \E r \in MelodyReqs : MelodyStart(1, r)
    \/ MelodyRest(1)
    \/ MelodyNote(1)
    \/ MelodyFinish(1)
    \/ MelodyRepeat(2, 1)
    \/ MelodyRest(2)
    \/ MelodyNote(2)
    \/ MelodyFinish(2)

SpecSeq == Init /\ [][NextSeq]_vars

----------------------------------------------------------------------------
(* Two /generate requests served at the same time.  The endpoint is a      *)
(* plain function, which the server runs on worker threads: the calls of   *)
(* two requests interleave, and both draw from the one stream.             *)

ConcMelodyReqs ==
    [tempo_bpm : {120}, bars : {1}, seed : 0..MaxSeed, scale : {"C_major"},
     density : {55, 100}, variation : {0}, octave_range : {1}]

InitConc == Init /\ rng = 0

NextConc ==
    \E p \in Procs :
        \/ \E r \in ConcMelodyReqs : MelodyStart(p, r)
        \/ MelodyRest(p)
        \/ MelodyNote(p)
        \/ MelodyFinish(p)

SpecConc == InitConc /\ [][NextConc]_vars

----------------------------------------------------------------------------
(* Observers used by the properties *)

\* absolute time of message i of a track: the sum of the delta times up to it
RECURSIVE AbsTime(_, _)
AbsTime(track, i) == IF i = 0 THEN 0 ELSE track[i].time + AbsTime(track, i - 1)

IsMelodyCall(p) == fn[p] = "generate_melody_midi"
IsDrumsCall(p) == fn[p] = "generate_drums_midi"
IsContinueCall(p) == fn[p] = "continue_midi_file"
IsHumanizeCall(p) == fn[p] = "humanize_midi_file"

Returned(p) == pc[p] = "done"

----------------------------------------------------------------------------
(* C1 *)

\* C1: two invocations of generate_melody_midi with the same request and the
\* same seed, run one after the other, return the same sequence of events.
C1_SeededMelodyRepeats ==
    (Returned(1) /\ Returned(2) /\ req[1] = req[2] /\ req[1].seed # None)
        => file[2] = file[1]

\* both invocations have returned, with a seed, and the melody has notes
C1_Witness ==
    /\ Returned(1) /\ Returned(2)
    /\ req[1] = req[2] /\ req[1].seed # None
    /\ Len(file[1][1]) > 6
    /\ rng # SeedState(req[1].seed)

----------------------------------------------------------------------------
(* C2 *)

\* C2: a seeded generate_melody_midi call returns the same events whatever
\* runs at the same time; so two calls with the same request and seed return
\* the same events, however their steps interleave.
C2_SeededUnderConcurrency ==
    (Returned(1) /\ Returned(2) /\ req[1] = req[2] /\ req[1].seed # None)
        => file[1] = file[2]

----------------------------------------------------------------------------
(* C3 *)

\* C3: in every melody, in the making and as returned, every note-on lies at
\* an absolute time in [0, total_ticks) and every pitch lies in [0, 127].
NotesInRange(track, total) ==
    \A i \in 1..Len(track) :
        IsNote(track[i]) =>
            /\ track[i].note \in 0..127
            /\ track[i].type = "note_on" =>
                   (0 <= AbsTime(track, i) /\ AbsTime(track, i) < total)

C3_OnsetAndPitchInRange ==
    \A p \in Procs :
        IsMelodyCall(p) =>
            /\ \A k \in 1..Len(tracks[p]) : NotesInRange(tracks[p][k], total_ticks(req[p]))
            /\ \A k \in 1..Len(file[p]) : NotesInRange(file[p][k], total_ticks(req[p]))

\* a returned melody whose last note starts in the last 16th of the piece
C3_Witness ==
    /\ Returned(1) /\ IsMelodyCall(1)
    /\ \E i \in 1..Len(file[1][1]) :
           /\ file[1][1][i].type = "note_on"
           /\ AbsTime(file[1][1], i) = total_ticks(req[1]) - 120

----------------------------------------------------------------------------
(* C4 *)

\* The melody generator alone, run to completion: a call is synchronous code
\* with no suspension point, so a step that can be taken is taken.
FairMelodyReqs ==
    [tempo_bpm : {120}, bars : 1..MaxBars, seed : {None} \cup 0..MaxSeed,
     scale : {"C_major"}, density : {0, 55, 100}, variation : {0, 100},
     octave_range : {2}]

NextMelody ==
    \/ \E r \in FairMelodyReqs : MelodyStart(1, r)
    \/ MelodyRest(1)
    \/ MelodyNote(1)
    \/ MelodyFinish(1)

SpecMelodyFair == Init /\ [][NextMelody]_vars /\ WF_vars(NextMelody)

\* every iteration of the loop moves the cursor forward by at least a 16th
CursorAdvances ==
    \A p \in Procs :
        (pc[p] = "melody" /\ pc'[p] = "melody")
            => current_tick'[p] >= current_tick[p] + ticks_per_16th

\* C4: every iteration of the melody loop, rest or note, clipped or not,
\* advances current_tick by at least 120 ticks, and every call returns.
C4_MelodyTerminates ==
    /\ [][CursorAdvances]_vars
    /\ \A p \in Procs : (pc[p] = "melody") ~> Returned(p)

\* a returned melody that had a rest and whose last note was clipped to a
\* length that is none of the five durations
C4_Witness ==
    /\ Returned(1) /\ IsMelodyCall(1)
    /\ current_tick[1] = total_ticks(req[1])
    /\ AbsTime(file[1][1], Len(file[1][1])) < total_ticks(req[1])
    /\ file[1][1][Len(file[1][1]) - 1].time \in {360, 600, 840}

----------------------------------------------------------------------------
(* C5 *)

\* C5: with swing = 0 the tick of every drum step is a multiple of 120, and
\* for every swing the tick of an even step is its tick for swing = 0.
C5_EvenStepsUnswung ==
    \A p \in Procs :
        (IsDrumsCall(p) /\ step[p] >= 0) =>
            /\ req[p].swing = 0 => tick[p] % 120 = 0
            /\ step[p] % 2 = 0 => tick[p] = (bar[p] * 16 + step[p]) * 120

\* an even step after a delayed odd one, in the last bar
C5_Witness ==
    /\ IsDrumsCall(1) /\ pc[1] = "drums"
    /\ req[1].swing = 1000 /\ step[1] = 14 /\ bar[1] = req[1].bars - 1
    /\ tick[1] = (bar[1] * 16 + 14) * 120
    /\ \E i \in 1..Len(events[1]) : events[1][i][1] % 120 = 60

----------------------------------------------------------------------------
(* C6 *)

----------------------------------------------------------------------------
(* C7 *)

\* the hit grid of a request: one (tick, pitch) cell for every bar, step and
\* voice of the style's template whose flag is 1
HitGrid(r) ==
    LET pattern == PatternGet(r.style)
    IN  { <<(b * 16 + s) * 120, DrumNote(pattern[k].name)>> :
            <<b, s, k>> \in { c \in (0..(r.bars - 1)) \X (0..15) \X (1..Len(pattern)) :
                                pattern[c[3]].hits[c[2] + 1] = 1 } }

\* the positions of the note-ons of a track
NoteOnIndexes(track) == { i \in 1..Len(track) : track[i].type = "note_on" }

\* the (absolute time, pitch) cells at which a track has a note-on
NoteOnCells(track) == { <<AbsTime(track, i), track[i].note>> : i \in NoteOnIndexes(track) }

\* C7: with swing = 0 the note-ons of the returned drum track lie on the
\* template's hit grid replicated once per bar, at tick (bar*16+step)*120 with
\* the voice's pitch, at most one per cell; when no retention draw dropped a
\* hit, there is exactly one note-on in every cell of the grid.
C7_HitsOnTemplateGrid ==
    \A p \in Procs :
        (IsDrumsCall(p) /\ Returned(p) /\ req[p].swing = 0) =>
            LET track == file[p][1]
                grid == HitGrid(req[p])
            IN  /\ NoteOnCells(track) \subseteq grid
                /\ Cardinality(NoteOnCells(track)) = Cardinality(NoteOnIndexes(track))
                /\ Len(events[p]) = Cardinality(grid) => NoteOnCells(track) = grid

\* a returned "basic" pattern of two bars in which every hit of the template
\* was retained: 14 hits a bar
C7_Witness ==
    /\ IsDrumsCall(1) /\ Returned(1)
    /\ req[1].swing = 0 /\ req[1].style = "basic" /\ req[1].bars = 2
    /\ Cardinality(NoteOnIndexes(file[1][1])) = 28
    /\ NoteOnCells(file[1][1]) = HitGrid(req[1])

\* a returned pattern in which a retention draw dropped a hit
C7_WitnessDropped ==
    /\ IsDrumsCall(1) /\ Returned(1) /\ req[1].swing = 0
    /\ NoteOnCells(file[1][1]) # HitGrid(req[1])
    /\ NoteOnCells(file[1][1]) # {}

----------------------------------------------------------------------------
(* C8 *)

\* C8: for every track of the input, the first 75% (by count) of its note-on
\* and note-off events are in the returned track as they were: same order,
\* type, pitch, velocity and delta time, whatever the draws.
C8_HeadPreserved ==
    \A p \in Procs :
        (IsContinueCall(p) /\ Returned(p)) =>
            /\ Len(file[p]) = Len(mid[p])
            /\ \A k \in 1..Len(mid[p]) :
                   LET before == NoteEvents(mid[p][k])
                       after == NoteEvents(file[p][k])
                       head == TailStart(Len(before))
                   IN  /\ Len(after) >= head
                       /\ SubSeq(after, 1, head) = SubSeq(before, 1, head)

\* a returned continuation with a track that got a varied tail: it has more
\* note events than the input track, and one of the added note-ons differs in
\* pitch from the note-on it was made from
C8_Witness ==
    /\ IsContinueCall(1) /\ Returned(1)
    /\ \E k \in 1..Len(mid[1]) :
           LET before == NoteEvents(mid[1][k])
               after == NoteEvents(file[1][k])
               n == Len(before)
           IN  /\ HasTail(n)
               /\ Len(after) = n + (n - TailStart(n))
               /\ \E i \in (TailStart(n) + 1)..n :
                      after[n + i - TailStart(n)].note # before[i].note

----------------------------------------------------------------------------
(* C9 *)

\* a note-off: a note_off message, or a note_on with velocity 0
IsNoteOff(msg) == msg.type = "note_off" \/ (msg.type = "note_on" /\ msg.velocity = 0)

\* every sounding note-on is followed by a note-off of its pitch, and the
\* track has as many note-offs as sounding note-ons
Paired(track) ==
    /\ Cardinality({i \in 1..Len(track) : IsSoundingNoteOn(track[i])})
           = Cardinality({i \in 1..Len(track) : IsNoteOff(track[i])})
    /\ \A i \in 1..Len(track) :
           IsSoundingNoteOn(track[i]) =>
               \E j \in (i + 1)..Len(track) :
                   IsNoteOff(track[j]) /\ track[j].note = track[i].note

\* C9: if every note-on of an input track is followed by a note-off of the
\* same pitch and note-ons and note-offs are equal in number, the same holds
\* of the returned track, whatever the pitch draws and wherever the 75% cut
\* falls.
C9_PairingPreserved ==
    \A p \in Procs :
        (IsContinueCall(p) /\ Returned(p)) =>
            \A k \in 1..Len(mid[p]) : Paired(mid[p][k]) => Paired(file[p][k])

----------------------------------------------------------------------------
(* C10 *)

\* C10 as written: no event of the returned file has a negative delta time
\* and no note-on of it has a velocity outside [1, 127].
C10_TimesAndVelocitiesLegal ==
    \A p \in Procs :
        (IsHumanizeCall(p) /\ Returned(p)) =>
            \A k \in 1..Len(file[p]) : \A i \in 1..Len(file[p][k]) :
                /\ file[p][k][i].time >= 0
                /\ file[p][k][i].type = "note_on" => file[p][k][i].velocity \in 1..127

\* C10 as amended: no event of the output has a negative delta time; every
\* note-on made from a note-on of velocity > 0 has a velocity in [1, 127];
\* the only other note-ons of the output are the input's note-ons of velocity
\* 0, which are in it as they were.
C10_SoundingVelocitiesLegal ==
    \A p \in Procs :
        IsHumanizeCall(p) =>
            /\ \A k \in 1..Len(tracks[p]) : \A i \in 1..Len(tracks[p][k]) :
                   LET msg == mid[p][k][i]
                       out == tracks[p][k][i]
                   IN  /\ out.time >= 0
                       /\ IsSoundingNoteOn(msg) =>
                              (out.type = "note_on" /\ out.velocity \in 1..127)
                       /\ ~IsSoundingNoteOn(msg) => out = msg
            /\ \A k \in 1..Len(file[p]) : \A i \in 1..Len(file[p][k]) :
                   /\ file[p][k][i].time >= 0
                   /\ file[p][k][i].type = "note_on" => file[p][k][i].velocity \in 0..127
            /\ Returned(p) =>
                   \A k \in 1..Len(file[p]) :
                       Cardinality({i \in 1..Len(file[p][k]) :
                                       file[p][k][i].type = "note_on" /\ file[p][k][i].velocity = 0})
                         = Cardinality({i \in 1..Len(mid[p][k]) :
                                       mid[p][k][i].type = "note_on" /\ mid[p][k][i].velocity = 0})

\* a returned humanization with a very large velocity_variation and humanize
\* in which a velocity was raised to the floor 1 from below, another lowered
\* to 127 from above, and a delta time raised to 0 from below
C10_Witness ==
    /\ IsHumanizeCall(1) /\ Returned(1)
    /\ req[1].velocity_variation = 10000 /\ req[1].humanize = 10000
    /\ \E k \in 1..Len(mid[1]) :
           /\ \E i \in 1..Len(mid[1][k]) :
                  /\ IsSoundingNoteOn(mid[1][k][i])
                  /\ file[1][k][i].velocity = 1
                  /\ mid[1][k][i].velocity > 1
           /\ \E i \in 1..Len(mid[1][k]) :
                  /\ IsSoundingNoteOn(mid[1][k][i])
                  /\ file[1][k][i].velocity = 127
                  /\ mid[1][k][i].velocity < 127
           /\ \E i \in 1..Len(mid[1][k]) :
                  /\ IsSoundingNoteOn(mid[1][k][i])
                  /\ file[1][k][i].time = 0
                  /\ mid[1][k][i].time = 120

----------------------------------------------------------------------------
(* C11 *)

\* the hit (tick, pitch) a written note message of absolute time t belongs
\* to: a note-off is written 60 ticks after its hit
HitOf(msg, t) == IF msg.type = "note_on" THEN <<t, msg.note>> ELSE <<t - 60, msg.note>>

\* the position in the list of hits, in the order of collection, of a hit
HitIndex(evs, h) == CHOOSE i \in 1..Len(evs) : evs[i][1] = h[1] /\ evs[i][2] = h[2]

\* hit g was put in the list of MIDI events before hit h: it has the earlier
\* tick or, at the same tick, it was collected first
HitBefore(evs, g, h) ==
    \/ g[1] < h[1]
    \/ g[1] = h[1] /\ HitIndex(evs, g) < HitIndex(evs, h)

\* C11: in the written drum track the note messages are exactly the note-on
\* of every collected hit at its tick and its note-off 60 ticks later (so no
\* delta time was altered by the max(0, ...) guard), in non-decreasing order
\* of absolute tick; messages of equal absolute tick are in the order of
\* insertion: a hit's note-on before its note-off, the messages of an earlier
\* hit before those of a later one.
C11_DrumTrackSortedAndStable ==
    \A p \in Procs :
        (IsDrumsCall(p) /\ Returned(p)) =>
            \A track \in {file[p][1]} : \A evs \in {events[p]} :
            \A at \in {[i \in 1..Len(track) |-> AbsTime(track, i)]} :
            \A idx \in {{i \in 1..Len(track) : IsNote(track[i])}} :
                /\ Cardinality(idx) = 2 * Len(evs)
                /\ \A i \in 1..Len(track) : track[i].time >= 0
                /\ \A e \in 1..Len(evs) :
                       /\ \E i \in idx : /\ track[i].type = "note_on"
                                         /\ at[i] = evs[e][1]
                                         /\ track[i].note = evs[e][2]
                                         /\ track[i].velocity = evs[e][3]
                       /\ \E i \in idx : /\ track[i].type = "note_off"
                                         /\ at[i] = evs[e][1] + 60
                                         /\ track[i].note = evs[e][2]
                /\ \A i \in idx : \A j \in idx :
                       (i < j /\ at[i] = at[j]) =>
                           LET g == HitOf(track[i], at[i])
                               h == HitOf(track[j], at[j])
                           IN  \/ HitBefore(evs, g, h)
                               \/ g = h /\ track[i].type = "note_on" /\ track[j].type = "note_off"

\* a returned drum track with full swing in which the note-off of a delayed
\* odd step and the note-on of the next even step fall on the same tick, and
\* in which two voices hit on the same step
C11_Witness ==
    /\ IsDrumsCall(1) /\ Returned(1) /\ req[1].swing = 1000
    /\ \E i \in 1..(Len(file[1][1]) - 1) :
           /\ file[1][1][i].type = "note_off"
           /\ file[1][1][i + 1].type = "note_on"
           /\ file[1][1][i + 1].time = 0
    /\ \E i \in 1..(Len(file[1][1]) - 1) :
           /\ file[1][1][i].type = "note_on"
           /\ file[1][1][i + 1].type = "note_on"
           /\ file[1][1][i + 1].time = 0

\* a returned drum track whose hits were not collected in tick order: the
\* swing delays an odd step beyond the next even step
C11_WitnessUnsorted ==
    /\ IsDrumsCall(1) /\ Returned(1)
    /\ \E i \in 1..(Len(events[1]) - 1) : events[1][i][1] > events[1][i + 1][1]

----------------------------------------------------------------------------
(* C12 *)

IsMeta(msg) == msg.type \in {"set_tempo", "time_signature", "track_name", "end_of_track"}

\* the meta-events of a track, in their order, without the delta time of the
\* end-of-track
MetaEvents(track) ==
    LET metas == SelectSeq(track, IsMeta)
    IN  [i \in 1..Len(metas) |->
            IF metas[i].type = "end_of_track" THEN [metas[i] EXCEPT !.time = 0] ELSE metas[i]]

\* C12: the file returned by continue_midi_file and by humanize_midi_file has
\* the number of tracks and the ticks per beat of the file read, and each of
\* its tracks has the meta-events of the track read, in their order, the
\* end-of-track being its last event.
C12_ShapePreserved ==
    \A p \in Procs :
        ((IsContinueCall(p) \/ IsHumanizeCall(p)) /\ Returned(p)) =>
            /\ Len(file[p]) = Len(mid[p])
            /\ tpb[p].out = tpb[p].mid
            /\ \A k \in 1..Len(mid[p]) :
                   /\ MetaEvents(file[p][k]) = MetaEvents(mid[p][k])
                   /\ file[p][k][Len(file[p][k])].type = "end_of_track"
                   /\ \A i \in 1..(Len(file[p][k]) - 1) : file[p][k][i].type # "end_of_track"

\* a returned continuation of a file of two tracks and 96 ticks per beat, in
\* which a tail was appended after the end-of-track of a track
C12_Witness ==
    /\ IsContinueCall(1) /\ Returned(1)
    /\ Len(mid[1]) = 2 /\ tpb[1].mid = 96
    /\ \E k \in 1..Len(mid[1]) :
           /\ Len(tracks[1][k]) > Len(mid[1][k])
           /\ \E i \in 1..(Len(tracks[1][k]) - 1) : tracks[1][k][i].type = "end_of_track"

\* a returned humanization whose input ends in an end-of-track with a delta time
C12_WitnessHumanize ==
    /\ IsHumanizeCall(1) /\ Returned(1)
    /\ file[1] # mid[1]
    /\ \E k \in 1..Len(mid[1]) :
           /\ mid[1][k][Len(mid[1][k])].time = 120
           /\ file[1][k][Len(file[1][k])] = mid[1][k][Len(mid[1][k])]

----------------------------------------------------------------------------
(* C13 *)

\* Requests with numeric parameters in and out of their ranges: the request
\* models declare plain int and float fields, so every value reaches the
\* generators.
RangeMelodyReqs ==
    [tempo_bpm : {120}, bars : {0, 1}, seed : {None}, scale : {"C_major"},
     density : {-50, 55, 150}, variation : {-50, 35, 150}, octave_range : {0, 2}]

RangeDrumReqs ==
    [tempo_bpm : {120}, bars : {0, 1}, seed : {None}, style : {"basic"},
     swing : {-500, 500, 2500}]

NextRange ==
    \/ \E r \in RangeMelodyReqs : MelodyStart(1, r)
    \/ MelodyRest(1)
    \/ MelodyNote(1)
    \/ MelodyFinish(1)
    \/ \E r \in RangeDrumReqs : DrumsStart(1, r)
    \/ DrumsStep(1)
    \/ DrumsWrite(1)

SpecRange == Init /\ [][NextRange]_vars

\* the generator of request p has run: its loop has taken a step, or it has
\* returned
HasGenerated(p) ==
    \/ Returned(p)
    \/ IsMelodyCall(p) /\ current_tick[p] > 0
    \/ IsDrumsCall(p) /\ step[p] >= 0

\* C13: a generator never runs with a numeric parameter out of its range:
\* density, variation and swing are in [0, 1], bars and tempo are > 0 and
\* octave_range is >= 1 in every call that has generated something.
C13_ParametersInRange ==
    \A p \in Procs :
        /\ (IsMelodyCall(p) /\ HasGenerated(p)) =>
               /\ req[p].density \in 0..100
               /\ req[p].variation \in 0..100
               /\ req[p].bars > 0
               /\ req[p].tempo_bpm > 0
               /\ req[p].octave_range >= 1
        /\ (IsDrumsCall(p) /\ HasGenerated(p)) =>
               /\ req[p].swing \in 0..1000
               /\ req[p].bars > 0
               /\ req[p].tempo_bpm > 0

----------------------------------------------------------------------------
(* C14 *)

\* Two websocket sessions, each asking for a melody once.
NextWs ==
    \E p \in Procs :
        \/ \E r \in WsReqs : WsReceive(p, r)
        \/ WsMelodyStart(p)
        \/ WsMelodyRaise(p)
        \/ WsMelodyRest(p)
        \/ WsMelodyNote(p)
        \/ WsMelodyFinish(p)
        \/ WsGenerationFailed(p)
        \/ WsRender(p)

SpecWs == Init /\ [][NextWs]_vars

\* the kind of a reply, as the client can tell it: its type and its code
ReplyKind(reply) == [type |-> reply.type, code |-> reply.code]

\* C14: the reply to a failure of the renderer or of the transcoder is never
\* of the kind of the reply to a failure of the MIDI generation.
C14_RenderFailureDistinct ==
    \A p \in Procs : \A q \in Procs :
        (/\ ws[p].stage = "replied" /\ ws[p].failure = "render"
         /\ ws[q].stage = "replied" /\ ws[q].failure = "generation")
            => ReplyKind(ws[p].reply) # ReplyKind(ws[q].reply)

----------------------------------------------------------------------------
(* C15 *)

\* A seeded request, and then the same request with its identifier resolved
\* by the rule of the fallback: an unknown scale is "C_major", an unknown
\* style is "basic", a known identifier is itself.
FallbackMelodyReqs ==
    [tempo_bpm : {120}, bars : {1}, seed : 0..MaxSeed,
     scale : {"Z_unknown", "B_minor", "C_major"},
     density : {55}, variation : {35}, octave_range : {2}]

FallbackDrumReqs ==
    [tempo_bpm : {120}, bars : {1}, seed : 0..MaxSeed,
     style : {"Z_unknown", "funk", "basic"}, swing : {0, 500}]

ResolvedScale(r) == [r EXCEPT !.scale = IF @ \in DOMAIN SCALES THEN @ ELSE "C_major"]
ResolvedStyle(r) == [r EXCEPT !.style = IF @ \in DOMAIN DRUM_PATTERNS THEN @ ELSE "basic"]

MelodyResolved(p, q) ==
    /\ pc[q] = "done" /\ IsMelodyCall(q)
    /\ MelodyStart(p, ResolvedScale(req[q]))

DrumsResolved(p, q) ==
    /\ pc[q] = "done" /\ IsDrumsCall(q)
    /\ DrumsStart(p, ResolvedStyle(req[q]))

NextFallback ==
    \/ \E r \in FallbackMelodyReqs : MelodyStart(1, r)
    \/ MelodyRest(1)
    \/ MelodyNote(1)
    \/ MelodyFinish(1)
    \/ \E r \in FallbackDrumReqs : DrumsStart(1, r)
    \/ DrumsStep(1)
    \/ DrumsWrite(1)
    \/ MelodyResolved(2, 1)
    \/ MelodyRest(2)
    \/ MelodyNote(2)
    \/ MelodyFinish(2)
    \/ DrumsResolved(2, 1)
    \/ DrumsStep(2)
    \/ DrumsWrite(2)

SpecFallback == Init /\ [][NextFallback]_vars

\* the pitch classes of a scale of the table
PitchClasses(scale_name) ==
    {(SCALES[scale_name].root + SCALES[scale_name].intervals[k]) % 12 :
        k \in 1..Len(SCALES[scale_name].intervals)}

\* the hit grid of a style of the table, one bar
StyleGrid(style) ==
    { <<s * 120, DRUM_MAP[DRUM_PATTERNS[style][k].name]>> :
        <<s, k>> \in { c \in (0..15) \X (1..Len(DRUM_PATTERNS[style])) :
                         DRUM_PATTERNS[style][c[2]].hits[c[1] + 1] = 1 } }

\* C15: a call with an unknown scale returns what the call with "C_major"
\* returns, a call with an unknown style what the call with "basic" returns;
\* with a known scale every pitch is of that scale, with a known style every
\* hit is on that style's grid: a known identifier is not replaced.
C15_UnknownFallsBackToDefault ==
    /\ (Returned(1) /\ Returned(2)) => file[2] = file[1]
    /\ \A p \in Procs :
           /\ (IsMelodyCall(p) /\ req[p].scale \in DOMAIN SCALES) =>
                  \A k \in 1..Len(tracks[p]) : \A i \in 1..Len(tracks[p][k]) :
                      IsNote(tracks[p][k][i]) =>
                          tracks[p][k][i].note % 12 \in PitchClasses(req[p].scale)
           /\ (IsDrumsCall(p) /\ Returned(p) /\ req[p].style \in DOMAIN DRUM_PATTERNS
                   /\ req[p].swing = 0) =>
                  NoteOnCells(file[p][1]) \subseteq StyleGrid(req[p].style)

\* a melody of an unknown scale and the melody of "C_major" have returned
C15_Witness ==
    /\ Returned(1) /\ Returned(2) /\ IsMelodyCall(1)
    /\ req[1].scale = "Z_unknown" /\ req[2].scale = "C_major"
    /\ Len(file[1][1]) > 6

\* drums of an unknown style and the drums of "basic" have returned
C15_WitnessDrums ==
    /\ Returned(1) /\ Returned(2) /\ IsDrumsCall(1)
    /\ req[1].style = "Z_unknown" /\ req[2].style = "basic"
    /\ Len(file[1][1]) > 6

\* melodies of a known scale other than the default have returned, with a
\* pitch that "C_major" does not have
C15_WitnessKnown ==
    /\ Returned(1) /\ Returned(2) /\ IsMelodyCall(1)
    /\ req[1].scale = "B_minor" /\ req[2].scale = "B_minor"
    /\ \E i \in 1..Len(file[2][1]) :
           IsNote(file[2][1][i]) /\ file[2][1][i].note % 12 \notin PitchClasses("C_major")

----------------------------------------------------------------------------
(* C16 *)

\* the parameters of a melody request are valid
ValidMelodyReq(r) ==
    /\ r.tempo_bpm > 0 /\ r.bars > 0
    /\ r.density \in 0..100 /\ r.variation \in 0..100
    /\ r.octave_range >= 1

C16_WitnessClamped ==
    /\ IsMelodyCall(1) /\ pc[1] = "melody"
    /\ req[1].octave_range = 1
    /\ current_idx[1] = 0
    /\ Len(tracks[1][1]) > 6
    /\ tracks[1][1][Len(tracks[1][1])].note = tracks[1][1][Len(tracks[1][1]) - 2].note

----------------------------------------------------------------------------
(* C17 *)

\* The pitch resolver on its own, for every scale, center and span.
NextScale == \E a \in ScaleArgs : GetScaleNotes(1, a)

SpecScale == Init /\ [][NextScale]_vars

IsScaleCall(p) == fn[p] = "get_scale_notes"

\* the octaves of the pitches of a list of a scale: pitch = octave * 12 +
\* root + interval with root + interval < 24
OctavesOf(list, scale) ==
    {o \in -3..14 : \E i \in 1..Len(list) : \E k \in 1..Len(scale.intervals) :
        list[i] = o * 12 + scale.root + scale.intervals[k]}

\* no pitch of the octaves from center - span to center + span is filtered
Unfiltered(a) == a.base_octave - a.octave_range >= 0 /\ a.base_octave + a.octave_range <= 8

\* C17: the pitches get_scale_notes returns are of exactly octave_range
\* consecutive octaves (where the filter drops nothing): the number of
\* octaves iterated is octave_range.
C17_OctaveCountIsSpan ==
    \A p \in Procs :
        (IsScaleCall(p) /\ Returned(p) /\ Unfiltered(req[p])) =>
            Cardinality(OctavesOf(result[p], ScaleGet(req[p].scale_name))) = req[p].octave_range

----------------------------------------------------------------------------
(* C18 *)

\* the octaves the loop of get_scale_notes goes through
IteratedOctaves(a) ==
    (a.base_octave - (a.octave_range \div 2))..(a.base_octave + (a.octave_range \div 2))

\* C18: for every scale of the table, every center and every span the list
\* get_scale_notes returns is strictly ascending, has only pitches in
\* [0, 127], and has every pitch octave * 12 + root + interval of the
\* iterated octaves that is in [0, 127].
C18_ScaleNotesAscendingAndComplete ==
    \A p \in Procs :
        (IsScaleCall(p) /\ Returned(p) /\ req[p].scale_name \in DOMAIN SCALES) =>
            LET list == result[p]
                scale == SCALES[req[p].scale_name]
            IN  /\ \A i \in 1..(Len(list) - 1) : list[i] < list[i + 1]
                /\ \A i \in 1..Len(list) : list[i] \in 0..127
                /\ \A o \in IteratedOctaves(req[p]) : \A k \in 1..Len(scale.intervals) :
                       LET note == o * 12 + scale.root + scale.intervals[k]
                       IN  note \in 0..127 => \E i \in 1..Len(list) : list[i] = note
                /\ \A i \in 1..Len(list) :
                       \E o \in IteratedOctaves(req[p]) : \E k \in 1..Len(scale.intervals) :
                           list[i] = o * 12 + scale.root + scale.intervals[k]

\* a returned list of a minor scale from which the filter has dropped the
\* one pitch below 0 of its lowest octave
C18_Witness ==
    /\ IsScaleCall(1) /\ Returned(1)
    /\ req[1].scale_name = "B_minor" /\ req[1].base_octave = 0 /\ req[1].octave_range = 3
    /\ Len(result[1]) = 20
    /\ result[1][1] = 1

\* a returned list from which the filter has dropped pitches above 127
C18_WitnessHigh ==
    /\ IsScaleCall(1) /\ Returned(1)
    /\ req[1].scale_name = "G_major" /\ req[1].base_octave = 10
    /\ Len(result[1]) > 0
    /\ result[1][Len(result[1])] = 127

----------------------------------------------------------------------------
(* C19 *)

\* a step of the melody loop of request p that emits a note: the track grows
EmitsNote(p) ==
    /\ IsMelodyCall(p) /\ pc[p] = "melody" /\ pc'[p] = "melody"
    /\ Len(tracks'[p][1]) = Len(tracks[p][1]) + 2

\* the emitted note-on is at the cursor: its absolute time in the track is
\* current_tick at the moment of emission
NoteAtCursor ==
    \A p \in Procs :
        EmitsNote(p) => AbsTime(tracks'[p][1], Len(tracks[p][1]) + 1) = current_tick[p]

\* C19: every note generate_melody_midi emits is placed at the cursor: the
\* absolute time of its note-on in the track (the sum of the delta times up
\* to it) is current_tick at the moment of emission, also after rest steps.
C19_NotesAtCursor == [][NoteAtCursor]_vars

----------------------------------------------------------------------------
(* C20 *)

\* the duration of the note a step emits: the delta time of its note-off
EmittedDuration(p) == tracks'[p][1][Len(tracks'[p][1])].time

\* the duration drawn for the note: the second draw of the iteration
DrawnDuration == Choice(RngNext(RngNext(rng)), durations)

DurationFits ==
    \A p \in Procs :
        EmitsNote(p) =>
            LET dur == EmittedDuration(p)
                total == total_ticks(req[p])
            IN  /\ dur > 0
                /\ current_tick[p] + dur <= total
                /\ current_tick'[p] = current_tick[p] + dur
                /\ dur \in {120, 240, 480, 720, 960} \/ dur = total - current_tick[p]
                /\ current_tick[p] + DrawnDuration <= total => dur = DrawnDuration
                /\ current_tick[p] + DrawnDuration > total => dur = total - current_tick[p]

\* C20: every emitted note has a duration > 0 that ends at or before
\* total_ticks: it is one of 120, 240, 480, 720, 960 or, only when the drawn
\* one would run past the end, exactly total_ticks - current_tick.
C20_DurationClipped == [][DurationFits]_vars

\* a melody whose last note was drawn as a dotted quarter or a half and cut
\* to five 16ths, ending the piece
C20_Witness ==
    /\ IsMelodyCall(1) /\ pc[1] = "melody"
    /\ current_tick[1] = total_ticks(req[1])
    /\ Len(tracks[1][1]) > 7
    /\ tracks[1][1][Len(tracks[1][1])].type = "note_off"
    /\ tracks[1][1][Len(tracks[1][1])].time = 600

----------------------------------------------------------------------------
(* C21 *)

\* the offset the running drum step of call p was given
SwingOffsetOf(p) == tick[p] - (bar[p] * 16 + step[p]) * ticks_per_16th

----------------------------------------------------------------------------
(* C22 *)

\* the positions of a track that hold a message of the given type and pitch
\* at the given absolute time (at: the absolute times of the track)
NotesAt(track, at, type, note, t) ==
    {i \in 1..Len(track) : track[i].type = type /\ track[i].note = note /\ at[i] = t}

\* C22: in the returned drum track every collected hit has exactly one
\* note-on at its tick and exactly one note-off of the same pitch 60 ticks
\* later, both on channel 9 and the note-on before the note-off; the track
\* has as many note-offs as note-ons, one pair per hit, and every note-off
\* has its note-on 60 ticks before it, earlier in the track.
C22_OneOnOneOffPerHit ==
    \A p \in Procs :
        (IsDrumsCall(p) /\ Returned(p)) =>
            \A track \in {file[p][1]} : \A evs \in {events[p]} :
            \A at \in {[i \in 1..Len(track) |-> AbsTime(track, i)]} :
            \A ons \in {{i \in 1..Len(track) : track[i].type = "note_on"}} :
            \A offs \in {{i \in 1..Len(track) : track[i].type = "note_off"}} :
                /\ Cardinality(ons) = Len(evs)
                /\ Cardinality(offs) = Len(evs)
                /\ \A i \in ons \cup offs : track[i].channel = 9
                /\ \A e \in 1..Len(evs) :
                       \A on \in {NotesAt(track, at, "note_on", evs[e][2], evs[e][1])} :
                       \A off \in {NotesAt(track, at, "note_off", evs[e][2], evs[e][1] + 60)} :
                           /\ Cardinality(on) = 1
                           /\ Cardinality(off) = 1
                           /\ \A i \in on : \A j \in off : i < j
                /\ \A j \in offs :
                       \E i \in ons : /\ i < j
                                      /\ track[i].note = track[j].note
                                      /\ at[i] = at[j] - 60

\* a returned drum track in which a hit of a late odd step sounds inside the
\* hit of the even step after it: note-on, note-on 30 ticks later, then the
\* two note-offs
C22_Witness ==
    /\ IsDrumsCall(1) /\ Returned(1) /\ req[1].swing = 2500
    /\ Len(events[1]) >= 8
    /\ \E i \in 1..(Len(file[1][1]) - 3) :
           /\ file[1][1][i].type = "note_on"
           /\ file[1][1][i + 1].type = "note_on" /\ file[1][1][i + 1].time = 30
           /\ file[1][1][i + 2].type = "note_off" /\ file[1][1][i + 2].time = 30
           /\ file[1][1][i + 2].note = file[1][1][i].note
           /\ file[1][1][i + 3].type = "note_off" /\ file[1][1][i + 3].time = 30
           /\ file[1][1][i + 3].note = file[1][1][i + 1].note

----------------------------------------------------------------------------
(* C23 *)

\* msg.copy(note=..., velocity=...) of a tail note-on with velocity > 0, for
\* some pitch offset of the list and some velocity offset of -10..10
IsVariantOf(v, msg) ==
    /\ v.type = msg.type /\ v.time = msg.time /\ v.channel = msg.channel
    /\ \E d \in {-2, -1, 0, 1, 2} : v.note = Max(0, Min(127, msg.note + d))
    /\ \E d \in (-10)..10 : v.velocity = Max(1, Min(127, msg.velocity + d))

\* what a tail event is allowed to become
TailForm(v, msg) == IF IsSoundingNoteOn(msg) THEN IsVariantOf(v, msg) ELSE v = msg

\* the delta time of the end-of-track that closes a track read from a file
EndDelta(track) == track[Len(track)].time

\* a message with its delta time lowered by d
Earlier(msg, d) == [msg EXCEPT !.time = @ - d]

\* C23 as written: the output track has the same number of note events as
\* the input track; the events before the trailing 25% are those of the
\* input and every tail event stands in its place, a tail note-on in its
\* perturbed form.
C23_TailReplaced ==
    \A p \in Procs :
        (IsContinueCall(p) /\ Returned(p)) =>
            \A k \in 1..Len(mid[p]) :
                \A ne \in {NoteEvents(mid[p][k])} : \A out \in {NoteEvents(file[p][k])} :
                    /\ Len(out) = Len(ne)
                    /\ \A i \in 1..Len(ne) :
                           IF Len(ne) > 20 /\ i > (3 * Len(ne)) \div 4
                           THEN TailForm(out[i], ne[i])
                           ELSE out[i] = ne[i]

\* C23 as amended: the varied tail is added after the copy. With n the
\* number of note events of an input track and t = int(0.75 * n), the note
\* events of the output track are the n of the input, unchanged, followed
\* for n > 20 by n - t more: one for every tail event, in order, a tail
\* note-on with velocity > 0 in its perturbed form (pitch offset in
\* {-2,..,2}, velocity offset in [-10,10], clamped to 0..127 and 1..127) and
\* every other tail event as it is, the first added event being later by
\* the delta time of the input's end-of-track, which the save moves to the
\* end of the track. For n <= 20 nothing is added.
C23_TailAppended ==
    \A p \in Procs :
        (IsContinueCall(p) /\ Returned(p)) =>
            \A k \in 1..Len(mid[p]) :
                \A ne \in {NoteEvents(mid[p][k])} : \A out \in {NoteEvents(file[p][k])} :
                \A n \in {Len(ne)} : \A t \in {(3 * Len(ne)) \div 4} :
                    /\ Len(out) = IF n > 20 THEN n + (n - t) ELSE n
                    /\ SubSeq(out, 1, n) = ne
                    /\ \A j \in 1..(Len(out) - n) :
                           TailForm(Earlier(out[n + j],
                                            IF j = 1 THEN EndDelta(mid[p][k]) ELSE 0),
                                    ne[t + j])

\* a returned continuation of a track of 22 note events: 28 note events, the
\* six added ones holding a note-on moved in pitch and one kept at 127 by
\* the clamp with its velocity changed
C23_Witness ==
    /\ IsContinueCall(1) /\ Returned(1) /\ Len(mid[1]) = 1
    /\ Len(NoteEvents(mid[1][1])) = 22
    /\ Len(NoteEvents(file[1][1])) = 28
    /\ NoteEvents(file[1][1])[23].note = 127
    /\ NoteEvents(file[1][1])[23].velocity # NoteEvents(mid[1][1])[17].velocity
    /\ NoteEvents(file[1][1])[27].note # NoteEvents(mid[1][1])[21].note

----------------------------------------------------------------------------
(* C24 *)

\* the scale step a note iteration draws when it starts with the stream in
\* state s: the third draw, doubled or not by the fifth when the fourth draw
\* is below the variation
DrawnStep(s, r) ==
    LET s3 == RngNext(RngNext(RngNext(s)))
        s4 == RngNext(s3)
        s5 == RngNext(s4)
    IN  IF RandomLt(s4, r.variation)
        THEN Choices(s3, steps, step_weights) * Choice(s5, <<1, 2>>)
        ELSE Choices(s3, steps, step_weights)

\* an index moved to the nearest edge of 0 .. n - 1
Saturated(idx, n) == IF idx < 0 THEN 0 ELSE IF idx > n - 1 THEN n - 1 ELSE idx

\* the pitches of the note messages of a track
PitchesOf(track) == {track[i].note : i \in {j \in 1..Len(track) : IsNote(track[j])}}

IndexInRange ==
    \A p \in Procs :
        \A notes \in {IF IsMelodyCall(p) THEN scale_notes(req[p]) ELSE <<>>} :
            /\ (IsMelodyCall(p)' /\ pc'[p] \in {"melody", "done"}) =>
                   \A after \in {scale_notes(req'[p])} :
                       /\ current_idx'[p] \in 0..(Len(after) - 1)
                       /\ PitchesOf(tracks'[p][1]) \subseteq {after[i] : i \in 1..Len(after)}
            /\ EmitsNote(p) =>
                   /\ current_idx'[p] =
                          Saturated(current_idx[p] + DrawnStep(rng, req[p]), Len(notes))
                   /\ tracks'[p][1][Len(tracks'[p][1])].note = notes[current_idx'[p] + 1]
                   /\ tracks'[p][1][Len(tracks'[p][1]) - 1].note = notes[current_idx'[p] + 1]

\* C24: after every step of the melody generation the scale index is inside
\* [0, len(scale_notes) - 1]; a note step moves it by the drawn step, to the
\* nearest edge when that would leave the range (never around to the other
\* end), and the pitch it emits is the element of the resolved pitch list at
\* the index, so every pitch of the track is an element of the list.
C24_IndexSaturates == [][IndexInRange]_vars

\* the stream states from which one note iteration that doubles its step
\* (seven draws) leaves the stream in state s
BeforeNote(s) ==
    {s0 \in 0..(RngMod - 1) :
        RngNext(RngNext(RngNext(RngNext(RngNext(RngNext(RngNext(s0))))))) = s}

\* a melody over one octave (seven pitches, start index 3) whose only note
\* so far was a doubled step of four or more degrees down: the index stopped
\* at 0 and the note has the lowest pitch of the list
C24_Witness ==
    /\ IsMelodyCall(1) /\ pc[1] = "melody"
    /\ req[1].octave_range = 1 /\ req[1].variation = 100
    /\ Len(scale_notes(req[1])) = 7
    /\ Len(tracks[1][1]) = 5
    /\ current_idx[1] = 0
    /\ tracks[1][1][4].note = scale_notes(req[1])[1]
    /\ \E s0 \in BeforeNote(rng) : 3 + DrawnStep(s0, req[1]) < 0

----------------------------------------------------------------------------
(* C25 *)

\* C25: the returned humanization has, track by track, as many messages as
\* the input and at every position a message of the same type, pitch and
\* channel; every message that is not a note-on with velocity > 0 (note-off,
\* note-on with velocity 0, meta-event) is as it was, delta time included.
C25_OnlySoundingNoteOnsAltered ==
    \A p \in Procs :
        (IsHumanizeCall(p) /\ Returned(p)) =>
            /\ Len(file[p]) = Len(mid[p])
            /\ \A k \in 1..Len(mid[p]) :
                   /\ Len(file[p][k]) = Len(mid[p][k])
                   /\ \A i \in 1..Len(mid[p][k]) :
                          \A msg \in {mid[p][k][i]} : \A out \in {file[p][k][i]} :
                              IF msg.type = "note_on" /\ msg.velocity > 0
                              THEN out = [msg EXCEPT !.time = out.time,
                                                     !.velocity = out.velocity]
                              ELSE out = msg

\* a returned humanization of a file whose note-offs are note-ons with
\* velocity 0: a sounding note-on came out with another delta time and
\* another velocity, and the message after it is the input's note-on of
\* velocity 0
C25_Witness ==
    /\ IsHumanizeCall(1) /\ Returned(1) /\ Len(mid[1]) = 1
    /\ \E i \in 1..(Len(mid[1][1]) - 1) :
           /\ mid[1][1][i].type = "note_on" /\ mid[1][1][i].velocity > 0
           /\ file[1][1][i].time # mid[1][1][i].time
           /\ file[1][1][i].velocity # mid[1][1][i].velocity
           /\ mid[1][1][i + 1].type = "note_on" /\ mid[1][1][i + 1].velocity = 0
           /\ file[1][1][i + 1] = mid[1][1][i + 1]
    /\ file[1][1][Len(file[1][1])].type = "end_of_track"
    /\ file[1][1][Len(file[1][1])].time = 120

----------------------------------------------------------------------------
(* Websocket sessions: two sockets, connected under any client_id, their   *)
(* clients going away at any moment.  The client of socket 1 sends any     *)
(* message; the client of socket 2 only pings and updates parameters.      *)

InitSession == Init /\ rng = 0

\* the sockets whose client sends every kind of message
Talkative == {1}

NextSession ==
    \/ \E s \in Sockets :
           \/ \E cid \in ClientIds : SessConnect(s, cid)
           \/ ClientCloses(s)
           \/ SessSend(s)
           \/ SessWelcomeRaises(s)
           \/ SessSendRaises(s)
           \/ SessClose(s)
           \/ SessClientGone(s)
           \/ \E m \in ObjectMessages :
                  \/ SessPing(s, m)
                  \/ SessUpdateParams(s, m)
    \/ \E s \in Talkative :
           \/ SessParseError(s)
           \/ SessReceiveError(s)
           \/ SessNotAnObject(s)
           \/ \E m \in ObjectMessages :
                  \/ SessBadParams(s, m)
                  \/ SessUnknownAction(s, m)
                  \/ SessGenerateStart(s, m)
           \/ SessGenerate(s)
           \/ SessRender(s)

SpecSession == InitSession /\ [][NextSession]_vars

\* manager.connect has returned for the socket and manager.disconnect has
\* not been called for it
Registered(s) == sock[s].pc \notin {"new", "ended"}

----------------------------------------------------------------------------
(* C26 *)

\* C26: every client that is connected and has not disconnected has an
\* entry under its client_id in manager.client_states and its socket in
\* manager.active_connections, also when another client uses the same
\* client_id.
C26_ConnectedClientsRegistered ==
    \A s \in Sockets :
        (Registered(s) /\ sock[s].client = "open") =>
            /\ InList(active_connections, s)
            /\ HasKey(client_states, sock[s].client_id)

----------------------------------------------------------------------------
(* C27 *)

\* C27: a session that has ended, by whichever path websocket_spectacles
\* terminated, is deregistered: its socket is not in active_connections and
\* client_states has no entry under its client_id, unless a session that
\* is still registered uses the same client_id.
C27_EndedSessionsDeregistered ==
    \A s \in Sockets :
        sock[s].pc = "ended" =>
            /\ ~InList(active_connections, s)
            /\ HasKey(client_states, sock[s].client_id) =>
                   \E t \in Sockets \ {s} :
                       Registered(t) /\ sock[t].client_id = sock[s].client_id

----------------------------------------------------------------------------
(* C28 *)

\* C28: while the connection of a client is open its session is not ended
\* by anything the client sent: the session is neither on its way to
\* manager.disconnect nor over, and the client is still registered.
C28_MessagesNeverEndSession ==
    \A s \in Sockets :
        (sock[s].pc # "new" /\ sock[s].client = "open") =>
            /\ sock[s].pc \notin {"close", "ended"}
            /\ InList(active_connections, s)

----------------------------------------------------------------------------
(* C29 *)

IsTerminal(reply) == reply.type \in {"pong", "params_updated", "audio_ready", "error"}

\* the status messages of an action, in their order
StatusesOf(action) ==
    CASE action = "generate_melody" -> <<"Generating melody...", "Rendering audio...">>
      [] action = "generate_drums" -> <<"Generating drums...", "Rendering audio...">>
      [] action = "generate_both" ->
             <<"Generating melody...", "Rendering melody audio...",
               "Generating drums...", "Rendering drums audio...">>
      [] OTHER -> <<>>

\* the calls that have to complete before audio_ready, in their order
WorkOf(action) ==
    IF action = "generate_both" THEN <<"generate", "render", "generate", "render">>
    ELSE <<"generate", "render">>

C29_WitnessFailed ==
    /\ sock[1].pc = "receive" /\ sock[1].action = "generate_melody"
    /\ Len(sock[1].sent) = 3
    /\ sock[1].sent[2].message = "Rendering audio..."
    /\ sock[1].sent[3].type = "error"

----------------------------------------------------------------------------
(* A seeded generation call, then a call without a seed, and the same two  *)
(* calls once more: call 1 (seeded), call 2 (no seed), call 3 repeats call *)
(* 1 and call 4 repeats call 2, each starting when the one before it has   *)
(* returned.  Nothing else draws from the stream.                          *)

Chain == 1..4

ChainMelodyReqs ==
    [tempo_bpm : {120}, bars : 1..MaxBars, seed : {None} \cup 0..MaxSeed,
     scale : {"C_major"}, density : {55}, variation : {35}, octave_range : {2}]

ChainDrumReqs ==
    [tempo_bpm : {120}, bars : {1}, seed : {None} \cup 0..MaxSeed,
     style : {"funk"}, swing : {500}]

ChainStyleReqs == [humanize : {30}, velocity_variation : {20}, swing : {0}]

InitChain ==
    /\ active_connections = <<>>
    /\ client_states = {}
    /\ sock = [s \in Sockets |-> NoSocket]
    /\ result = [p \in Chain |-> <<>>]
    /\ ws = [p \in Chain |-> NoSession]
    /\ tpb = [p \in Chain |-> [mid |-> None, out |-> None]]
    /\ rng \in 0..(RngMod - 1)
    /\ pc = [p \in Chain |-> "idle"]
    /\ fn = [p \in Chain |-> "none"]
    /\ req = [p \in Chain |-> NoReq]
    /\ mid = [p \in Chain |-> <<>>]
    /\ tracks = [p \in Chain |-> <<>>]
    /\ events = [p \in Chain |-> <<>>]
    /\ current_tick = [p \in Chain |-> 0]
    /\ current_idx = [p \in Chain |-> 0]
    /\ rests = [p \in Chain |-> 0]
    /\ bar = [p \in Chain |-> 0]
    /\ step = [p \in Chain |-> 0]
    /\ tick = [p \in Chain |-> 0]
    /\ trk = [p \in Chain |-> 0]
    /\ pos = [p \in Chain |-> 0]
    /\ file = [p \in Chain |-> <<>>]

\* the call before call p has returned
Turn(p) == p = 1 \/ pc[p - 1] = "done"

\* call 1: a generation call with a seed
SeededMelody(r) == r.seed # None /\ MelodyStart(1, r)
SeededDrums(r) == r.seed # None /\ DrumsStart(1, r)

\* call 2: any of the four functions, without a seed
UnseededMelody(r) == Turn(2) /\ r.seed = None /\ MelodyStart(2, r)
UnseededDrums(r) == Turn(2) /\ r.seed = None /\ DrumsStart(2, r)
UnseededContinue(f) == Turn(2) /\ ContinueStart(2, f)
UnseededHumanize(f, r) == Turn(2) /\ HumanizeStart(2, f, r)

\* calls 3 and 4: the call two places before, with the same arguments
AgainMelody(p) == Turn(p) /\ IsMelodyCall(p - 2) /\ MelodyStart(p, req[p - 2])
AgainDrums(p) == Turn(p) /\ IsDrumsCall(p - 2) /\ DrumsStart(p, req[p - 2])
AgainContinue(p) == Turn(p) /\ IsContinueCall(p - 2) /\ ContinueStart(p, mid[p - 2])
AgainHumanize(p) ==
    Turn(p) /\ IsHumanizeCall(p - 2) /\ HumanizeStart(p, mid[p - 2], req[p - 2])

NextChain ==
    \/ \E r \in ChainMelodyReqs : SeededMelody(r)
    \/ \E r \in ChainDrumReqs : SeededDrums(r)
    \/ \E r \in ChainMelodyReqs : UnseededMelody(r)
    \/ \E r \in ChainDrumReqs : UnseededDrums(r)
    \/ \E f \in ContinueFiles : UnseededContinue(f)
    \/ \E f \in HumanizeFiles, r \in ChainStyleReqs : UnseededHumanize(f, r)
    \/ \E p \in {3, 4} :
           \/ AgainMelody(p)
           \/ AgainDrums(p)
           \/ AgainContinue(p)
           \/ AgainHumanize(p)
    \/ \E p \in Chain :
           \/ MelodyRest(p)
           \/ MelodyNote(p)
           \/ MelodyFinish(p)
           \/ DrumsStep(p)
           \/ DrumsWrite(p)
           \/ ContinueTrack(p)
           \/ ContinueVary(p)
           \/ ContinueCopy(p)
           \/ ContinueFinish(p)
           \/ HumanizeTrack(p)
           \/ HumanizeNoteOn(p)
           \/ HumanizeCopy(p)
           \/ HumanizeFinish(p)

SpecChain == InitChain /\ [][NextChain]_vars

----------------------------------------------------------------------------
(* C30 *)

\* call p starts in this step, and it has no seed
StartsUnseeded(p) ==
    /\ pc[p] = "idle" /\ pc'[p] # "idle"
    /\ IF fn'[p] \in {"generate_melody_midi", "generate_drums_midi"}
       THEN req'[p].seed = None
       ELSE TRUE

UnseededKeepsStream ==
    /\ \A p \in Chain : StartsUnseeded(p) => rng' = rng
    /\ (pc'[2] = "done" /\ pc'[4] = "done") => file'[4] = file'[2]

\* C30: a call without a seed starts with the stream as the call before it
\* left it, and when the sequence "seeded generation call, then a call
\* without a seed" is run again with the same arguments, the second call
\* returns the same file as it did the first time, whatever the stream was
\* before the sequence.
C30_UnseededCallDeterminedBySeed == [][UnseededKeepsStream]_vars

\* both runs of the sequence have returned, the call without a seed being a
\* continuation that added a varied tail, and the stream state differs
\* from the one a seeding alone leaves
C30_Witness ==
    /\ pc[2] = "done" /\ pc[4] = "done"
    /\ IsContinueCall(2) /\ IsContinueCall(4)
    /\ file[4] = file[2]
    /\ file[3] = file[1]
    /\ Len(NoteEvents(file[4][1])) > Len(NoteEvents(mid[4][1]))
    /\ \E i \in 1..Len(NoteEvents(mid[4][1])) :
           NoteEvents(file[4][1])[Len(NoteEvents(file[4][1]))  - 1].note
               # NoteEvents(mid[4][1])[i].note

\* both runs have returned, the call without a seed being a melody
C30_WitnessMelody ==
    /\ pc[2] = "done" /\ pc[4] = "done"
    /\ IsMelodyCall(2) /\ IsDrumsCall(1)
    /\ file[4] = file[2]
    /\ Len(file[4][1]) > 5

----------------------------------------------------------------------------
(* Drum calls for every style of DRUM_PATTERNS and one unknown style, with *)
(* swing inside the documented range 0..1.                                 *)

Styles == DOMAIN DRUM_PATTERNS \cup {"Z_unknown"}

StyleDrumReqs ==
    [tempo_bpm : {120}, bars : 1..MaxDrumBars, seed : {None} \cup 0..MaxSeed,
     style : Styles, swing : {0, 500, 1000}]

NextStyles ==
    \/ \E r \in StyleDrumReqs : DrumsStart(1, r)
    \/ DrumsStep(1)
    \/ DrumsWrite(1)

SpecStyles == Init /\ [][NextStyles]_vars

(* C31 *)

\* C31: in a returned drum track, for bars >= 1 and swing in [0,1], hits of
\* one pitch never overlap: no other note-on of the pitch lies from a
\* note-on up to (not including) its note-off 60 ticks later (two hits of a
\* pitch never start on the same tick either); a note-off that shares its
\* tick with a note-on of the same pitch is written before it; every note-on
\* is at a tick in [0, bars*1920) and every note-off in (0, bars*1920].
C31_SamePitchHitsNeverOverlap ==
    \A p \in Procs :
        (IsDrumsCall(p) /\ Returned(p) /\ req[p].bars >= 1 /\ req[p].swing \in 0..1000) =>
            \A track \in {file[p][1]} :
            \A at \in {[i \in 1..Len(track) |-> AbsTime(track, i)]} :
            \A ons \in {{i \in 1..Len(track) : track[i].type = "note_on"}} :
            \A offs \in {{i \in 1..Len(track) : track[i].type = "note_off"}} :
                /\ \A i \in ons :
                       /\ at[i] >= 0 /\ at[i] < req[p].bars * 1920
                       /\ \A j \in ons :
                              (j # i /\ track[j].note = track[i].note) =>
                                  ~(at[j] >= at[i] /\ at[j] < at[i] + 60)
                       /\ \A j \in offs :
                              (track[j].note = track[i].note /\ at[j] = at[i]) => j < i
                /\ \A j \in offs : at[j] > 0 /\ at[j] <= req[p].bars * 1920

\* a returned drum track of full swing in which the note-off of a hit of an
\* odd step and the note-on of the same pitch of the even step after it fall
\* on one tick, the note-off written right before the note-on
C31_Witness ==
    /\ IsDrumsCall(1) /\ Returned(1) /\ req[1].swing = 1000 /\ req[1].bars = 1
    /\ \E i \in 1..(Len(file[1][1]) - 1) :
           /\ file[1][1][i].type = "note_off"
           /\ file[1][1][i + 1].type = "note_on" /\ file[1][1][i + 1].time = 0
           /\ file[1][1][i + 1].note = file[1][1][i].note

----------------------------------------------------------------------------
(* C32 *)

\* the sum of the durations of the notes of a melody track: the delta times
\* of its note-offs
RECURSIVE DurationSum(_)
DurationSum(track) ==
    IF track = <<>> THEN 0
    ELSE (IF Head(track).type = "note_off" THEN Head(track).time ELSE 0)
         + DurationSum(Tail(track))

\* the notes of a track tile it: the first note-on is at tick 0, every
\* note-on is followed by its note-off, and the note-on after that is at the
\* onset of the note before plus that note's duration
Tiles(track, at) ==
    \A ons \in {{i \in 1..Len(track) : track[i].type = "note_on"}} :
        /\ \A i \in ons :
               /\ i < Len(track) /\ track[i + 1].type = "note_off"
               /\ (\A j \in ons : j >= i) => at[i] = 0
               /\ (i + 2) \in ons => at[i + 2] = at[i] + track[i + 1].time
        /\ \A i \in ons : \A j \in ons : (i < j) => (i + 2) \in ons

\* C32: in every call of the melody generator, loop running or returned, the
\* durations of the notes written so far plus 120 times the rests taken so
\* far equal the cursor, and the cursor of a returned call is total_ticks =
\* bars * 1920; with density 1.0 no rest is ever taken, the notes tile the
\* track from tick 0 and the durations of a returned call sum to total_ticks.
C32_NotesAndRestsFillLength ==
    \A p \in Procs :
        (IsMelodyCall(p) /\ pc[p] \in {"melody", "done"}) =>
            \A track \in {tracks[p][1]} :
            \A sum \in {DurationSum(track)} :
                /\ sum + 120 * rests[p] = current_tick[p]
                /\ Returned(p) =>
                       /\ current_tick[p] = total_ticks(req[p])
                       /\ DurationSum(file[p][1]) + 120 * rests[p] = req[p].bars * 1920
                /\ req[p].density = 100 =>
                       /\ rests[p] = 0
                       /\ Tiles(track, [i \in 1..Len(track) |-> AbsTime(track, i)])
                       /\ Returned(p) =>
                              /\ DurationSum(file[p][1]) = req[p].bars * 1920
                              /\ Tiles(file[p][1],
                                       [i \in 1..Len(file[p][1]) |-> AbsTime(file[p][1], i)])

\* a returned call of density 1.0 with several notes, the last of them cut
\* short to end at total_ticks
C32_Witness ==
    /\ IsMelodyCall(1) /\ Returned(1) /\ req[1].density = 100 /\ rests[1] = 0
    /\ \E i \in 1..Len(file[1][1]) :
           /\ file[1][1][i].type = "note_off"
           /\ file[1][1][i].time \notin {120, 240, 480, 720, 960}
    /\ Cardinality({i \in 1..Len(file[1][1]) : file[1][1][i].type = "note_on"}) >= 3

\* a returned call of density 0.55 with both rests and notes
C32_WitnessRests ==
    /\ IsMelodyCall(1) /\ Returned(1) /\ req[1].density = 55
    /\ rests[1] >= 2
    /\ DurationSum(file[1][1]) > 0

----------------------------------------------------------------------------
(* C33 *)

\* C33: in a returned continuation, a track of 20 or fewer note events is
\* returned as it was read, message for message. A track of n > 20 note
\* events is varied, and its tail region is note_events[t:] with
\* t = floor(0.75 * n): the returned track is the input track up to its
\* end-of-track, then one message for each of the n - t note events from
\* index t on, in order and none from before index t (a note-on with
\* velocity > 0 in its perturbed form, any other as it is, the first later by
\* the delta time of the input's end-of-track), then the end-of-track.
C33_TailFromThreeQuarters ==
    \A p \in Procs :
        (IsContinueCall(p) /\ Returned(p)) =>
            /\ Len(file[p]) = Len(mid[p])
            /\ \A k \in 1..Len(mid[p]) :
                   \A in \in {mid[p][k]} : \A out \in {file[p][k]} :
                   \A ne \in {NoteEvents(mid[p][k])} :
                   \A n \in {Len(ne)} : \A t \in {(3 * Len(ne)) \div 4} :
                   \A body \in {Len(in) - 1} :
                       IF n <= 20 THEN out = in
                       ELSE /\ Len(out) = Len(in) + (n - t)
                            /\ SubSeq(out, 1, body) = SubSeq(in, 1, body)
                            /\ \A j \in 1..(n - t) :
                                   TailForm(Earlier(out[body + j],
                                                    IF j = 1 THEN EndDelta(in) ELSE 0),
                                            ne[t + j])
                            /\ out[Len(out)] = MetaMessage("end_of_track", 0)

\* a returned continuation of a file of two tracks: the track of 22 note
\* events has the 6 note events from index 16 on added, the track of 4 note
\* events is as it was
C33_Witness ==
    /\ IsContinueCall(1) /\ Returned(1) /\ Len(mid[1]) = 2
    /\ Len(NoteEvents(mid[1][1])) = 22
    /\ Len(file[1][1]) = Len(mid[1][1]) + 6
    /\ Len(NoteEvents(mid[1][2])) = 4
    /\ file[1][2] = mid[1][2]

\* a returned continuation of a track of exactly 20 note events, unchanged
C33_WitnessTwenty ==
    /\ IsContinueCall(1) /\ Returned(1) /\ Len(mid[1]) = 1
    /\ Len(NoteEvents(mid[1][1])) = 20
    /\ file[1] = mid[1]

----------------------------------------------------------------------------
(* C34 *)

\* the session has sent the terminal reply to a generate action and is back
\* in receive
GenerateFinished(s) ==
    /\ IsGenerate(sock[s].action)
    /\ sock[s].pc = "receive"
    /\ sock[s].sent # <<>>
    /\ sock[s].sent[Len(sock[s].sent)].type \in {"audio_ready", "error"}

\* C34, for the WebSocket actions: when a generate_melody, generate_drums or
\* generate_both action has finished, with audio_ready or with an error
\* reply, no temporary MIDI file made for it is left on disk.
C34_TempMidiFilesDeleted ==
    \A s \in Sockets : GenerateFinished(s) => sock[s].temp = {}

\* what holds instead: nothing is left after audio_ready, and after an error
\* reply at most the MIDI file of the piece whose rendering raised
C34_TempMidiFilesDeletedOnSuccess ==
    \A s \in Sockets :
        GenerateFinished(s) =>
            IF sock[s].sent[Len(sock[s].sent)].type = "audio_ready"
            THEN sock[s].temp = {}
            ELSE Cardinality(sock[s].temp) <= 1

\* a generate_both action that finished with audio_ready, both MIDI files
\* made and deleted
C34_WitnessDeleted ==
    /\ GenerateFinished(1) /\ sock[1].action = "generate_both"
    /\ sock[1].sent[Len(sock[1].sent)].type = "audio_ready"
    /\ sock[1].work = <<"generate", "render", "generate", "render">>
    /\ sock[1].temp = {}

====
